---- MODULE Spec2Model ----
(***************************************************************************)
(* Model of the register-machine assembly interpreter of kata-asm.         *)
(*                                                                         *)
(*   src/part_2.py            Interpreter, assembler_interpreter           *)
(*   src/kata/part_2_kata.py  the same Interpreter nested in a function    *)
(*   src/simple.py            SimpleAssemblerInterpreter                   *)
(*                                                                         *)
(* A Python str is modelled as a sequence of one-character strings, so     *)
(* that scanning, int() and str() are computed character by character.     *)
(* A Python index is kept 0-based: the element at index i of a list or of  *)
(* a str s is s[i + 1].                                                    *)
(***************************************************************************)
EXTENDS Integers, Sequences, FiniteSets, TLC

(***************************************************************************)
(* Characters and strings                                                  *)
(***************************************************************************)

\* string.digits
digits == {"0", "1", "2", "3", "4", "5", "6", "7", "8", "9"}

\* string.ascii_letters
ascii_letters ==
    {"a", "b", "c", "d", "e", "f", "g", "h", "i", "j", "k", "l", "m",
     "n", "o", "p", "q", "r", "s", "t", "u", "v", "w", "x", "y", "z",
     "A", "B", "C", "D", "E", "F", "G", "H", "I", "J", "K", "L", "M",
     "N", "O", "P", "Q", "R", "S", "T", "U", "V", "W", "X", "Y", "Z"}

\* the characters str.strip() removes, among those a source line is made of
whitespace == {" ", "\t"}

\* s[i] of Python, for 0 <= i < len(s)
At(s, i) == s[i + 1]

\* s[i:j] of Python, for 0 <= i <= j <= len(s)
Slice(s, i, j) == SubSeq(s, i + 1, j)

\* c.isdigit(), for the one-character strings of a source line
isdigit(c) == c \in digits

\* valid_symbol of parse_instruction: v in ascii_letters + '_' + digits
valid_symbol(v) == v \in ascii_letters \cup {"_"} \cup digits

\* number of leading / trailing whitespace characters of s
RECURSIVE LeadWs(_, _)
LeadWs(s, i) ==
    IF i < Len(s) /\ At(s, i) \in whitespace THEN LeadWs(s, i + 1) ELSE i

RECURSIVE TrailWs(_, _)
TrailWs(s, j) ==
    IF j > 0 /\ At(s, j - 1) \in whitespace THEN TrailWs(s, j - 1) ELSE j

\* s.strip()
strip(s) ==
    LET i == LeadWs(s, 0)
    IN  IF i = Len(s) THEN << >> ELSE Slice(s, i, TrailWs(s, Len(s)))

\* ''.join(strings)
RECURSIVE join(_)
join(strings) ==
    IF strings = << >> THEN << >> ELSE Head(strings) \o join(Tail(strings))

\* arg.startswith("'")
startswith_quote(arg) == Len(arg) > 0 /\ arg[1] = "'"

\* arg[1:-1]
strip_quotes(arg) == IF Len(arg) < 2 THEN << >> ELSE SubSeq(arg, 2, Len(arg) - 1)

(***************************************************************************)
(* int() and str()                                                         *)
(***************************************************************************)

\* the value of a decimal digit
DigitVal(c) ==
    CASE c = "0" -> 0 [] c = "1" -> 1 [] c = "2" -> 2 [] c = "3" -> 3
      [] c = "4" -> 4 [] c = "5" -> 5 [] c = "6" -> 6 [] c = "7" -> 7
      [] c = "8" -> 8 [] c = "9" -> 9

\* the decimal digit of a value 0..9
DigitChar(d) ==
    CASE d = 0 -> "0" [] d = 1 -> "1" [] d = 2 -> "2" [] d = 3 -> "3"
      [] d = 4 -> "4" [] d = 5 -> "5" [] d = 6 -> "6" [] d = 7 -> "7"
      [] d = 8 -> "8" [] d = 9 -> "9"

\* int() accepts digits with single underscores between them: the first and
\* the last character are digits and no two underscores are adjacent
IsDigitGroup(s) ==
    /\ Len(s) > 0
    /\ \A k \in 1..Len(s) : s[k] \in digits \cup {"_"}
    /\ s[1] \in digits
    /\ s[Len(s)] \in digits
    /\ \A k \in 1..(Len(s) - 1) : ~(s[k] = "_" /\ s[k + 1] = "_")

\* whether int(token) succeeds, for a token the tokenizer can produce
\* (no whitespace, no "+"): an optional "-", then a digit group
IsIntLiteral(token) ==
    /\ Len(token) > 0
    /\ IF token[1] = "-" THEN IsDigitGroup(Tail(token)) ELSE IsDigitGroup(token)

\* the value of a digit group, most significant digit first
RECURSIVE DigitsValue(_, _)
DigitsValue(s, acc) ==
    IF s = << >> THEN acc
    ELSE IF Head(s) = "_" THEN DigitsValue(Tail(s), acc)
    ELSE DigitsValue(Tail(s), 10 * acc + DigitVal(Head(s)))

\* int(token), for a token with IsIntLiteral(token)
int(token) ==
    IF token[1] = "-" THEN 0 - DigitsValue(Tail(token), 0)
    ELSE DigitsValue(token, 0)

\* str(n) for n >= 0
RECURSIVE NatStr(_)
NatStr(n) ==
    IF n < 10 THEN << DigitChar(n) >>
    ELSE Append(NatStr(n \div 10), DigitChar(n % 10))

\* None, and an int, as a register or flag value
None == [none |-> TRUE, n |-> 0]
IntV(n) == [none |-> FALSE, n |-> n]

\* str(value): the decimal representation of an int, 'None' for None
str(value) ==
    IF value.none THEN << "N", "o", "n", "e" >>
    ELSE IF value.n < 0 THEN << "-" >> \o NatStr(0 - value.n)
    ELSE NatStr(value.n)

\* the quotient rounded toward zero
FloorDiv_truncating(a, b) ==
    LET abs(n) == IF n < 0 THEN 0 - n ELSE n
        q == abs(a) \div abs(b)
    IN  IF (a < 0) # (b < 0) THEN 0 - q ELSE q

\* a // b of Python for b # 0: the quotient rounded toward negative infinity
FloorDiv(a, b) == IF b > 0 THEN a \div b ELSE (0 - a) \div (0 - b)

\* str.split(): the words between runs of whitespace
RECURSIVE SplitFrom(_, _, _, _)
SplitFrom(s, i, word, out) ==
    LET closed == IF word = << >> THEN out ELSE Append(out, word)
    IN  IF ~(i < Len(s)) THEN closed
        ELSE IF At(s, i) \in whitespace THEN SplitFrom(s, i + 1, << >>, closed)
        ELSE SplitFrom(s, i + 1, Append(word, At(s, i)), out)

split(s) == SplitFrom(s, 0, << >>, << >>)

(***************************************************************************)
(* Tokenizer: Interpreter.parse_instruction                                *)
(***************************************************************************)

\* the opcode the tokenizer gives a label definition
label_command == << "_", "l", "a", "b", "e", "l" >>

\* a parsed instruction: (command, args)
Parsed(command, args) == [command |-> command, args |-> args]

\* the end of the run of valid symbols that starts at i
RECURSIVE SymbolRunEnd(_, _)
SymbolRunEnd(ins, i) ==
    IF i < Len(ins) /\ valid_symbol(At(ins, i)) THEN SymbolRunEnd(ins, i + 1) ELSE i

\* the end of the run of digits that starts at i
RECURSIVE DigitRunEnd(_, _)
DigitRunEnd(ins, i) ==
    IF i < Len(ins) /\ isdigit(At(ins, i)) THEN DigitRunEnd(ins, i + 1) ELSE i

\* the end of a quoted string taken at the first space as well
RECURSIVE QuoteRunEnd_at_space(_, _)
QuoteRunEnd_at_space(ins, i) ==
    IF i < Len(ins) /\ At(ins, i) # "'" /\ At(ins, i) # " "
    THEN QuoteRunEnd_at_space(ins, i + 1)
    ELSE i

\* the index of the next quote at or after i, or len(ins)
RECURSIVE QuoteRunEnd(_, _)
QuoteRunEnd(ins, i) ==
    IF i < Len(ins) /\ At(ins, i) # "'" THEN QuoteRunEnd(ins, i + 1) ELSE i

\* the loop that collects the opcode: each character read is followed by a
\* look at the next one, and a ":" there makes the line a label definition
RECURSIVE ScanCommand(_, _, _)
ScanCommand(ins, i, command) ==
    IF i < Len(ins) /\ valid_symbol(At(ins, i))
    THEN LET c == Append(command, At(ins, i))
             j == i + 1
         IN  IF j < Len(ins) /\ At(ins, j) = ":"
             THEN [label |-> TRUE, command |-> c, i |-> j]
             ELSE ScanCommand(ins, j, c)
    ELSE [label |-> FALSE, command |-> command, i |-> i]

\* the loop that collects the operands, from index i on
RECURSIVE ScanArgs(_, _, _)
ScanArgs(ins, i, args) ==
    IF ~(i < Len(ins)) THEN args
    ELSE IF valid_symbol(At(ins, i))
    THEN LET j == SymbolRunEnd(ins, i)
         IN  ScanArgs(ins, j + 1, Append(args, Slice(ins, i, j)))
    ELSE IF At(ins, i) = "-" \/ isdigit(At(ins, i))
    THEN LET j == DigitRunEnd(ins, i + 1)
         IN  ScanArgs(ins, j + 1, Append(args, Slice(ins, i, j)))
    ELSE IF At(ins, i) = "'"
    THEN LET j == QuoteRunEnd(ins, i + 1)
         IN  ScanArgs(ins, j + 1, Append(args, Append(Slice(ins, i, j), "'")))
    ELSE IF At(ins, i) = ";" THEN args
    ELSE ScanArgs(ins, i + 1, args)

\* the outer loop going on to collect operands after the colon of a label
RECURSIVE ScanLine_label_operands(_, _)
ScanLine_label_operands(ins, i) ==
    IF ~(i < Len(ins)) THEN Parsed(<< >>, << >>)
    ELSE IF valid_symbol(At(ins, i))
    THEN LET r == ScanCommand(ins, i, << >>)
         IN  IF r.label
             THEN Parsed(label_command, ScanArgs(ins, r.i + 1, << r.command >>))
             ELSE Parsed(r.command, ScanArgs(ins, r.i + 1, << >>))
    ELSE IF At(ins, i) = ";" THEN Parsed(<< >>, << >>)
    ELSE ScanLine_label_operands(ins, i + 1)

\* the outer loop giving a comment line the opcode ";"
RECURSIVE ScanLine_comment_command(_, _)
ScanLine_comment_command(ins, i) ==
    IF ~(i < Len(ins)) THEN Parsed(<< >>, << >>)
    ELSE IF valid_symbol(At(ins, i))
    THEN LET r == ScanCommand(ins, i, << >>)
         IN  IF r.label THEN Parsed(label_command, << r.command >>)
             ELSE Parsed(r.command, ScanArgs(ins, r.i + 1, << >>))
    ELSE IF At(ins, i) = ";" THEN Parsed(<< ";" >>, << >>)
    ELSE ScanLine_comment_command(ins, i + 1)

\* the outer loop: skip to the first valid symbol, stop at a ";"
RECURSIVE ScanLine(_, _)
ScanLine(ins, i) ==
    IF ~(i < Len(ins)) THEN Parsed(<< >>, << >>)
    ELSE IF valid_symbol(At(ins, i))
    THEN LET r == ScanCommand(ins, i, << >>)
         IN  IF r.label THEN Parsed(label_command, << r.command >>)
             ELSE Parsed(r.command, ScanArgs(ins, r.i + 1, << >>))
    ELSE IF At(ins, i) = ";" THEN Parsed(<< >>, << >>)
    ELSE ScanLine(ins, i + 1)

\* Interpreter.parse_instruction(instruction)
parse_instruction(instruction) == ScanLine(strip(instruction), 0)

\* the outer loop of src/kata/part_2_kata.py: the operand loop is under
\* `if command != '_label'`, so an opcode spelled _label gets no operands;
\* comment_found is never set and leaves the loop condition as it was
RECURSIVE kata_ScanLine(_, _)
kata_ScanLine(ins, i) ==
    IF ~(i < Len(ins)) THEN Parsed(<< >>, << >>)
    ELSE IF valid_symbol(At(ins, i))
    THEN LET r == ScanCommand(ins, i, << >>)
         IN  IF r.label THEN Parsed(label_command, << r.command >>)
             ELSE IF r.command # label_command
             THEN Parsed(r.command, ScanArgs(ins, r.i + 1, << >>))
             ELSE Parsed(r.command, << >>)
    ELSE IF At(ins, i) = ";" THEN Parsed(<< >>, << >>)
    ELSE kata_ScanLine(ins, i + 1)

\* parse_instruction of the Interpreter nested in assembler_interpreter of
\* src/kata/part_2_kata.py
kata_parse_instruction(instruction) == kata_ScanLine(strip(instruction), 0)

(***************************************************************************)
(* Opcodes and source lines                                                *)
(***************************************************************************)

\* the keys of Interpreter.available_instructions
w_mov == << "m", "o", "v" >>
w_inc == << "i", "n", "c" >>
w_dec == << "d", "e", "c" >>
w_add == << "a", "d", "d" >>
w_sub == << "s", "u", "b" >>
w_mul == << "m", "u", "l" >>
w_div == << "d", "i", "v" >>
w_jmp == << "j", "m", "p" >>
w_cmp == << "c", "m", "p" >>
w_jne == << "j", "n", "e" >>
w_je == << "j", "e" >>
w_jge == << "j", "g", "e" >>
w_jg == << "j", "g" >>
w_jle == << "j", "l", "e" >>
w_jl == << "j", "l" >>
w_call == << "c", "a", "l", "l" >>
w_ret == << "r", "e", "t" >>
w_msg == << "m", "s", "g" >>
w_end == << "e", "n", "d" >>

\* the keys that map to inc_ci
inc_ci_commands == { << ";" >>, label_command, << >> }

available_instructions ==
    { w_mov, w_inc, w_dec, w_add, w_sub, w_mul, w_div, w_jmp, w_cmp, w_jne,
      w_je, w_jge, w_jg, w_jle, w_jl, w_call, w_ret, w_msg, w_end }
    \cup inc_ci_commands

\* the source line "op a"
Line1(op, a) == op \o << " " >> \o a

\* the source line "op a, b"
Line2(op, a, b) == op \o << " " >> \o a \o << ",", " " >> \o b

(***************************************************************************)
(* The programs the model runs                                             *)
(***************************************************************************)

\* the longest program of FreePrograms, in lines
MaxLines == 3

\* the instructions a run may dispatch before the model stops following it
MaxSteps == 40

\* the longest line of TokLines, in characters
MaxLineLen == 4

\* the most operands of a line of OperandLines
MaxOperands == 2

\* the longest program of SimplePrograms, in commands
MaxSimpleLines == 3

\* the commands a run of SimpleAssemblerInterpreter may run before the model
\* stops following it
MaxSimpleSteps == 12

\* the lines FreePrograms are made of
CoreLines ==
    { Line2(w_mov, << "a" >>, << "2" >>),           \* mov a, 2
      Line2(w_mov, << "b" >>, << "a" >>),           \* mov b, a
      Line1(w_inc, << "a" >>),                      \* inc a
      Line2(w_div, << "a" >>, << "b" >>),           \* div a, b
      Line2(w_cmp, << "a" >>, << "b" >>),           \* cmp a, b
      Line1(w_jne, << "f" >>),                      \* jne f
      Line1(w_jl, << "g" >>),                       \* jl g
      Line1(w_jmp, << "f" >>),                      \* jmp f
      Line1(w_call, << "f" >>),                     \* call f
      w_ret,                                        \* ret
      Line1(w_msg, << "'", "x", "'", ",", "a" >>),  \* msg 'x',a
      w_end,                                        \* end
      << "f", ":" >>,                               \* f:
      << ";", "c" >> }                              \* ;c

\* every program of at most MaxLines lines of CoreLines
FreePrograms == UNION { [1..n -> CoreLines] : n \in 0..MaxLines }

\* the operands and the jumps of the comparison table
CmpOperands == { << "-", "1" >>, << "0" >>, << "2" >> }
CondJumps == { w_jne, w_je, w_jge, w_jg, w_jle, w_jl }

\* mov a, x / cmp a, y / <jump> f / msg 'n' / f: / end
CmpProgram(x, y, jump) ==
    << Line2(w_mov, << "a" >>, x),
       Line2(w_cmp, << "a" >>, y),
       Line1(jump, << "f" >>),
       Line1(w_msg, << "'", "n", "'" >>),
       << "f", ":" >>,
       w_end >>

CmpPrograms ==
    { CmpProgram(x, y, jump) : x \in CmpOperands, y \in CmpOperands, jump \in CondJumps }

\* the program of src/part_2.py test_00_first_program
program_first ==
       \* (blank line)
    << << >>,
       \*     ; My first program
       << " ", " ", " ", " ", ";", " ", "M", "y", " ", "f", "i", "r", "s", "t", " ", "p", "r",
          "o", "g", "r", "a", "m" >>,
       \*     mov  a, 5
       << " ", " ", " ", " ", "m", "o", "v", " ", " ", "a", ",", " ", "5" >>,
       \*     inc  a
       << " ", " ", " ", " ", "i", "n", "c", " ", " ", "a" >>,
       \*     call function
       << " ", " ", " ", " ", "c", "a", "l", "l", " ", "f", "u", "n", "c", "t", "i", "o",
          "n" >>,
       \*     msg  '(5+1)/2 = ', a    ; output message
       << " ", " ", " ", " ", "m", "s", "g", " ", " ", "'", "(", "5", "+", "1", ")", "/", "2",
          " ", "=", " ", "'", ",", " ", "a", " ", " ", " ", " ", ";", " ", "o", "u", "t", "p",
          "u", "t", " ", "m", "e", "s", "s", "a", "g", "e" >>,
       \*     end
       << " ", " ", " ", " ", "e", "n", "d" >>,
       \* (blank line)
       << >>,
       \*     function:
       << " ", " ", " ", " ", "f", "u", "n", "c", "t", "i", "o", "n", ":" >>,
       \*         div  a, 2
       << " ", " ", " ", " ", " ", " ", " ", " ", "d", "i", "v", " ", " ", "a", ",", " ",
          "2" >>,
       \*         ret
       << " ", " ", " ", " ", " ", " ", " ", " ", "r", "e", "t" >> >>

\* the program of src/part_2.py test_01_program_factorial, with a = 3
program_factorial ==
       \* mov   a, 3
    << << "m", "o", "v", " ", " ", " ", "a", ",", " ", "3" >>,
       \* mov   b, a
       << "m", "o", "v", " ", " ", " ", "b", ",", " ", "a" >>,
       \* mov   c, a
       << "m", "o", "v", " ", " ", " ", "c", ",", " ", "a" >>,
       \* call  proc_fact
       << "c", "a", "l", "l", " ", " ", "p", "r", "o", "c", "_", "f", "a", "c", "t" >>,
       \* call  print
       << "c", "a", "l", "l", " ", " ", "p", "r", "i", "n", "t" >>,
       \* end
       << "e", "n", "d" >>,
       \* (blank line)
       << >>,
       \* proc_fact:
       << "p", "r", "o", "c", "_", "f", "a", "c", "t", ":" >>,
       \*     dec   b
       << " ", " ", " ", " ", "d", "e", "c", " ", " ", " ", "b" >>,
       \*     mul   c, b
       << " ", " ", " ", " ", "m", "u", "l", " ", " ", " ", "c", ",", " ", "b" >>,
       \*     cmp   b, 1
       << " ", " ", " ", " ", "c", "m", "p", " ", " ", " ", "b", ",", " ", "1" >>,
       \*     jne   proc_fact
       << " ", " ", " ", " ", "j", "n", "e", " ", " ", " ", "p", "r", "o", "c", "_", "f", "a",
          "c", "t" >>,
       \*     ret
       << " ", " ", " ", " ", "r", "e", "t" >>,
       \* (blank line)
       << >>,
       \* print:
       << "p", "r", "i", "n", "t", ":" >>,
       \*     msg   a, '! = ', c ; output text
       << " ", " ", " ", " ", "m", "s", "g", " ", " ", " ", "a", ",", " ", "'", "!", " ", "=",
          " ", "'", ",", " ", "c", " ", ";", " ", "o", "u", "t", "p", "u", "t", " ", "t", "e",
          "x", "t" >>,
       \*     ret
       << " ", " ", " ", " ", "r", "e", "t" >> >>

\* the program of src/part_2.py test_02_program_fibonacci, with a = 3
program_fibonacci ==
       \* mov   a, 3            ; value
    << << "m", "o", "v", " ", " ", " ", "a", ",", " ", "3", " ", " ", " ", " ", " ", " ", " ",
          " ", " ", " ", " ", " ", ";", " ", "v", "a", "l", "u", "e" >>,
       \* mov   b, 0            ; next
       << "m", "o", "v", " ", " ", " ", "b", ",", " ", "0", " ", " ", " ", " ", " ", " ", " ",
          " ", " ", " ", " ", " ", ";", " ", "n", "e", "x", "t" >>,
       \* mov   c, 0            ; counter
       << "m", "o", "v", " ", " ", " ", "c", ",", " ", "0", " ", " ", " ", " ", " ", " ", " ",
          " ", " ", " ", " ", " ", ";", " ", "c", "o", "u", "n", "t", "e", "r" >>,
       \* mov   d, 0            ; first
       << "m", "o", "v", " ", " ", " ", "d", ",", " ", "0", " ", " ", " ", " ", " ", " ", " ",
          " ", " ", " ", " ", " ", ";", " ", "f", "i", "r", "s", "t" >>,
       \* mov   e, 1            ; second
       << "m", "o", "v", " ", " ", " ", "e", ",", " ", "1", " ", " ", " ", " ", " ", " ", " ",
          " ", " ", " ", " ", " ", ";", " ", "s", "e", "c", "o", "n", "d" >>,
       \* call  proc_fib
       << "c", "a", "l", "l", " ", " ", "p", "r", "o", "c", "_", "f", "i", "b" >>,
       \* call  print
       << "c", "a", "l", "l", " ", " ", "p", "r", "i", "n", "t" >>,
       \* end
       << "e", "n", "d" >>,
       \* (blank line)
       << >>,
       \* proc_fib:
       << "p", "r", "o", "c", "_", "f", "i", "b", ":" >>,
       \*     cmp   c, 2
       << " ", " ", " ", " ", "c", "m", "p", " ", " ", " ", "c", ",", " ", "2" >>,
       \*     jl    func_0
       << " ", " ", " ", " ", "j", "l", " ", " ", " ", " ", "f", "u", "n", "c", "_", "0" >>,
       \*     mov   b, d
       << " ", " ", " ", " ", "m", "o", "v", " ", " ", " ", "b", ",", " ", "d" >>,
       \*     add   b, e
       << " ", " ", " ", " ", "a", "d", "d", " ", " ", " ", "b", ",", " ", "e" >>,
       \*     mov   d, e
       << " ", " ", " ", " ", "m", "o", "v", " ", " ", " ", "d", ",", " ", "e" >>,
       \*     mov   e, b
       << " ", " ", " ", " ", "m", "o", "v", " ", " ", " ", "e", ",", " ", "b" >>,
       \*     inc   c
       << " ", " ", " ", " ", "i", "n", "c", " ", " ", " ", "c" >>,
       \*     cmp   c, a
       << " ", " ", " ", " ", "c", "m", "p", " ", " ", " ", "c", ",", " ", "a" >>,
       \*     jle   proc_fib
       << " ", " ", " ", " ", "j", "l", "e", " ", " ", " ", "p", "r", "o", "c", "_", "f", "i",
          "b" >>,
       \*     ret
       << " ", " ", " ", " ", "r", "e", "t" >>,
       \* (blank line)
       << >>,
       \* func_0:
       << "f", "u", "n", "c", "_", "0", ":" >>,
       \*     mov   b, c
       << " ", " ", " ", " ", "m", "o", "v", " ", " ", " ", "b", ",", " ", "c" >>,
       \*     inc   c
       << " ", " ", " ", " ", "i", "n", "c", " ", " ", " ", "c" >>,
       \*     jmp   proc_fib
       << " ", " ", " ", " ", "j", "m", "p", " ", " ", " ", "p", "r", "o", "c", "_", "f", "i",
          "b" >>,
       \* (blank line)
       << >>,
       \* print:
       << "p", "r", "i", "n", "t", ":" >>,
       \*     msg   'Term ', a, ' is: ', b        ; output text
       << " ", " ", " ", " ", "m", "s", "g", " ", " ", " ", "'", "T", "e", "r", "m", " ", "'",
          ",", " ", "a", ",", " ", "'", " ", "i", "s", ":", " ", "'", ",", " ", "b", " ", " ",
          " ", " ", " ", " ", " ", " ", ";", " ", "o", "u", "t", "p", "u", "t", " ", "t", "e",
          "x", "t" >>,
       \*     ret
       << " ", " ", " ", " ", "r", "e", "t" >> >>

\* the program of src/part_2.py test_03_program_mod, with a = -7, b = 2
program_mod ==
       \* mov   a, -7           ; value1
    << << "m", "o", "v", " ", " ", " ", "a", ",", " ", "-", "7", " ", " ", " ", " ", " ", " ",
          " ", " ", " ", " ", " ", ";", " ", "v", "a", "l", "u", "e", "1" >>,
       \* mov   b, 2            ; value2
       << "m", "o", "v", " ", " ", " ", "b", ",", " ", "2", " ", " ", " ", " ", " ", " ", " ",
          " ", " ", " ", " ", " ", ";", " ", "v", "a", "l", "u", "e", "2" >>,
       \* call  mod_func
       << "c", "a", "l", "l", " ", " ", "m", "o", "d", "_", "f", "u", "n", "c" >>,
       \* msg   'mod(', a, ', ', b, ') = ', d        ; output
       << "m", "s", "g", " ", " ", " ", "'", "m", "o", "d", "(", "'", ",", " ", "a", ",", " ",
          "'", ",", " ", "'", ",", " ", "b", ",", " ", "'", ")", " ", "=", " ", "'", ",", " ",
          "d", " ", " ", " ", " ", " ", " ", " ", " ", ";", " ", "o", "u", "t", "p", "u", "t" >>,
       \* end
       << "e", "n", "d" >>,
       \* (blank line)
       << >>,
       \* ; Mod function
       << ";", " ", "M", "o", "d", " ", "f", "u", "n", "c", "t", "i", "o", "n" >>,
       \* mod_func:
       << "m", "o", "d", "_", "f", "u", "n", "c", ":" >>,
       \*     mov   c, a        ; temp1
       << " ", " ", " ", " ", "m", "o", "v", " ", " ", " ", "c", ",", " ", "a", " ", " ", " ",
          " ", " ", " ", " ", " ", ";", " ", "t", "e", "m", "p", "1" >>,
       \*     div   c, b
       << " ", " ", " ", " ", "d", "i", "v", " ", " ", " ", "c", ",", " ", "b" >>,
       \*     mul   c, b
       << " ", " ", " ", " ", "m", "u", "l", " ", " ", " ", "c", ",", " ", "b" >>,
       \*     mov   d, a        ; temp2
       << " ", " ", " ", " ", "m", "o", "v", " ", " ", " ", "d", ",", " ", "a", " ", " ", " ",
          " ", " ", " ", " ", " ", ";", " ", "t", "e", "m", "p", "2" >>,
       \*     sub   d, c
       << " ", " ", " ", " ", "s", "u", "b", " ", " ", " ", "d", ",", " ", "c" >>,
       \*     ret
       << " ", " ", " ", " ", "r", "e", "t" >> >>

\* the program of src/part_2.py test_04_program_gcd, with a = -4, b = 6
program_gcd ==
       \* mov   a, -4         ; value1
    << << "m", "o", "v", " ", " ", " ", "a", ",", " ", "-", "4", " ", " ", " ", " ", " ", " ",
          " ", " ", " ", ";", " ", "v", "a", "l", "u", "e", "1" >>,
       \* mov   b, 6          ; value2
       << "m", "o", "v", " ", " ", " ", "b", ",", " ", "6", " ", " ", " ", " ", " ", " ", " ",
          " ", " ", " ", ";", " ", "v", "a", "l", "u", "e", "2" >>,
       \* call  init
       << "c", "a", "l", "l", " ", " ", "i", "n", "i", "t" >>,
       \* call  proc_gcd
       << "c", "a", "l", "l", " ", " ", "p", "r", "o", "c", "_", "g", "c", "d" >>,
       \* call  print
       << "c", "a", "l", "l", " ", " ", "p", "r", "i", "n", "t" >>,
       \* end
       << "e", "n", "d" >>,
       \* (blank line)
       << >>,
       \* proc_gcd:
       << "p", "r", "o", "c", "_", "g", "c", "d", ":" >>,
       \*     cmp   c, d
       << " ", " ", " ", " ", "c", "m", "p", " ", " ", " ", "c", ",", " ", "d" >>,
       \*     jne   loop
       << " ", " ", " ", " ", "j", "n", "e", " ", " ", " ", "l", "o", "o", "p" >>,
       \*     ret
       << " ", " ", " ", " ", "r", "e", "t" >>,
       \* (blank line)
       << >>,
       \* loop:
       << "l", "o", "o", "p", ":" >>,
       \*     cmp   c, d
       << " ", " ", " ", " ", "c", "m", "p", " ", " ", " ", "c", ",", " ", "d" >>,
       \*     jg    a_bigger
       << " ", " ", " ", " ", "j", "g", " ", " ", " ", " ", "a", "_", "b", "i", "g", "g", "e",
          "r" >>,
       \*     jmp   b_bigger
       << " ", " ", " ", " ", "j", "m", "p", " ", " ", " ", "b", "_", "b", "i", "g", "g", "e",
          "r" >>,
       \* (blank line)
       << >>,
       \* a_bigger:
       << "a", "_", "b", "i", "g", "g", "e", "r", ":" >>,
       \*     sub   c, d
       << " ", " ", " ", " ", "s", "u", "b", " ", " ", " ", "c", ",", " ", "d" >>,
       \*     jmp   proc_gcd
       << " ", " ", " ", " ", "j", "m", "p", " ", " ", " ", "p", "r", "o", "c", "_", "g", "c",
          "d" >>,
       \* (blank line)
       << >>,
       \* b_bigger:
       << "b", "_", "b", "i", "g", "g", "e", "r", ":" >>,
       \*     sub   d, c
       << " ", " ", " ", " ", "s", "u", "b", " ", " ", " ", "d", ",", " ", "c" >>,
       \*     jmp   proc_gcd
       << " ", " ", " ", " ", "j", "m", "p", " ", " ", " ", "p", "r", "o", "c", "_", "g", "c",
          "d" >>,
       \* (blank line)
       << >>,
       \* init:
       << "i", "n", "i", "t", ":" >>,
       \*     cmp   a, 0
       << " ", " ", " ", " ", "c", "m", "p", " ", " ", " ", "a", ",", " ", "0" >>,
       \*     jl    a_abs
       << " ", " ", " ", " ", "j", "l", " ", " ", " ", " ", "a", "_", "a", "b", "s" >>,
       \*     cmp   b, 0
       << " ", " ", " ", " ", "c", "m", "p", " ", " ", " ", "b", ",", " ", "0" >>,
       \*     jl    b_abs
       << " ", " ", " ", " ", "j", "l", " ", " ", " ", " ", "b", "_", "a", "b", "s" >>,
       \*     mov   c, a            ; temp1
       << " ", " ", " ", " ", "m", "o", "v", " ", " ", " ", "c", ",", " ", "a", " ", " ", " ",
          " ", " ", " ", " ", " ", " ", " ", " ", " ", ";", " ", "t", "e", "m", "p", "1" >>,
       \*     mov   d, b            ; temp2
       << " ", " ", " ", " ", "m", "o", "v", " ", " ", " ", "d", ",", " ", "b", " ", " ", " ",
          " ", " ", " ", " ", " ", " ", " ", " ", " ", ";", " ", "t", "e", "m", "p", "2" >>,
       \*     ret
       << " ", " ", " ", " ", "r", "e", "t" >>,
       \* (blank line)
       << >>,
       \* a_abs:
       << "a", "_", "a", "b", "s", ":" >>,
       \*     mul   a, -1
       << " ", " ", " ", " ", "m", "u", "l", " ", " ", " ", "a", ",", " ", "-", "1" >>,
       \*     jmp   init
       << " ", " ", " ", " ", "j", "m", "p", " ", " ", " ", "i", "n", "i", "t" >>,
       \* (blank line)
       << >>,
       \* b_abs:
       << "b", "_", "a", "b", "s", ":" >>,
       \*     mul   b, -1
       << " ", " ", " ", " ", "m", "u", "l", " ", " ", " ", "b", ",", " ", "-", "1" >>,
       \*     jmp   init
       << " ", " ", " ", " ", "j", "m", "p", " ", " ", " ", "i", "n", "i", "t" >>,
       \* (blank line)
       << >>,
       \* print:
       << "p", "r", "i", "n", "t", ":" >>,
       \*     msg   'gcd(', a, ', ', b, ') = ', c
       << " ", " ", " ", " ", "m", "s", "g", " ", " ", " ", "'", "g", "c", "d", "(", "'", ",",
          " ", "a", ",", " ", "'", ",", " ", "'", ",", " ", "b", ",", " ", "'", ")", " ", "=",
          " ", "'", ",", " ", "c" >>,
       \*     ret
       << " ", " ", " ", " ", "r", "e", "t" >> >>

\* the program of src/part_2.py test_05_program_fail
program_fail ==
       \* call  func1
    << << "c", "a", "l", "l", " ", " ", "f", "u", "n", "c", "1" >>,
       \* call  print
       << "c", "a", "l", "l", " ", " ", "p", "r", "i", "n", "t" >>,
       \* end
       << "e", "n", "d" >>,
       \* (blank line)
       << >>,
       \* func1:
       << "f", "u", "n", "c", "1", ":" >>,
       \*     call  func2
       << " ", " ", " ", " ", "c", "a", "l", "l", " ", " ", "f", "u", "n", "c", "2" >>,
       \*     ret
       << " ", " ", " ", " ", "r", "e", "t" >>,
       \* (blank line)
       << >>,
       \* func2:
       << "f", "u", "n", "c", "2", ":" >>,
       \*     ret
       << " ", " ", " ", " ", "r", "e", "t" >>,
       \* (blank line)
       << >>,
       \* print:
       << "p", "r", "i", "n", "t", ":" >>,
       \*     msg 'This program should return -1'
       << " ", " ", " ", " ", "m", "s", "g", " ", "'", "T", "h", "i", "s", " ", "p", "r", "o",
          "g", "r", "a", "m", " ", "s", "h", "o", "u", "l", "d", " ", "r", "e", "t", "u", "r",
          "n", " ", "-", "1", "'" >> >>

\* the program of src/part_2.py test_06_program_power, with b = 3
program_power ==
       \* mov   a, 2            ; value1
    << << "m", "o", "v", " ", " ", " ", "a", ",", " ", "2", " ", " ", " ", " ", " ", " ", " ",
          " ", " ", " ", " ", " ", ";", " ", "v", "a", "l", "u", "e", "1" >>,
       \* mov   b, 3            ; value2
       << "m", "o", "v", " ", " ", " ", "b", ",", " ", "3", " ", " ", " ", " ", " ", " ", " ",
          " ", " ", " ", " ", " ", ";", " ", "v", "a", "l", "u", "e", "2" >>,
       \* mov   c, a            ; temp1
       << "m", "o", "v", " ", " ", " ", "c", ",", " ", "a", " ", " ", " ", " ", " ", " ", " ",
          " ", " ", " ", " ", " ", ";", " ", "t", "e", "m", "p", "1" >>,
       \* mov   d, b            ; temp2
       << "m", "o", "v", " ", " ", " ", "d", ",", " ", "b", " ", " ", " ", " ", " ", " ", " ",
          " ", " ", " ", " ", " ", ";", " ", "t", "e", "m", "p", "2" >>,
       \* call  proc_func
       << "c", "a", "l", "l", " ", " ", "p", "r", "o", "c", "_", "f", "u", "n", "c" >>,
       \* call  print
       << "c", "a", "l", "l", " ", " ", "p", "r", "i", "n", "t" >>,
       \* end
       << "e", "n", "d" >>,
       \* (blank line)
       << >>,
       \* proc_func:
       << "p", "r", "o", "c", "_", "f", "u", "n", "c", ":" >>,
       \*     cmp   d, 1
       << " ", " ", " ", " ", "c", "m", "p", " ", " ", " ", "d", ",", " ", "1" >>,
       \*     je    continue
       << " ", " ", " ", " ", "j", "e", " ", " ", " ", " ", "c", "o", "n", "t", "i", "n", "u",
          "e" >>,
       \*     mul   c, a
       << " ", " ", " ", " ", "m", "u", "l", " ", " ", " ", "c", ",", " ", "a" >>,
       \*     dec   d
       << " ", " ", " ", " ", "d", "e", "c", " ", " ", " ", "d" >>,
       \*     call  proc_func
       << " ", " ", " ", " ", "c", "a", "l", "l", " ", " ", "p", "r", "o", "c", "_", "f", "u",
          "n", "c" >>,
       \* (blank line)
       << >>,
       \* continue:
       << "c", "o", "n", "t", "i", "n", "u", "e", ":" >>,
       \*     ret
       << " ", " ", " ", " ", "r", "e", "t" >>,
       \* (blank line)
       << >>,
       \* print:
       << "p", "r", "i", "n", "t", ":" >>,
       \*     msg a, '^', b, ' = ', c
       << " ", " ", " ", " ", "m", "s", "g", " ", "a", ",", " ", "'", "^", "'", ",", " ", "b",
          ",", " ", "'", " ", "=", " ", "'", ",", " ", "c" >>,
       \*     ret
       << " ", " ", " ", " ", "r", "e", "t" >> >>

\* programs with a line the tokenizer cannot read as written
MalformedPrograms ==
    { \* msg 'x / end
      << << "m", "s", "g", " ", "'", "x" >>, w_end >>,
      \* mov a, - / msg a / end
      << << "m", "o", "v", " ", "a", ",", " ", "-" >>, Line1(w_msg, << "a" >>), w_end >> }

\* programs that fail at an instruction after some output
FailingPrograms ==
    { \* mov a, 2 / msg a / div a, 0 / end
      << Line2(w_mov, << "a" >>, << "2" >>), Line1(w_msg, << "a" >>),
         Line2(w_div, << "a" >>, << "0" >>), w_end >>,
      \* msg 'x' / ret / end
      << Line1(w_msg, << "'", "x", "'" >>), w_ret, w_end >>,
      \* msg 'x' / jmp g / end
      << Line1(w_msg, << "'", "x", "'" >>), Line1(w_jmp, << "g" >>), w_end >>,
      \* msg 'x' / inc z / end
      << Line1(w_msg, << "'", "x", "'" >>), Line1(w_inc, << "z" >>), w_end >>,
      \* msg 'x' / call g / end
      << Line1(w_msg, << "'", "x", "'" >>), Line1(w_call, << "g" >>), w_end >>,
      \* msg 'x' / nop / end
      << Line1(w_msg, << "'", "x", "'" >>), << "n", "o", "p" >>, w_end >>,
      \* msg 'x' / end z
      << Line1(w_msg, << "'", "x", "'" >>), Line1(w_end, << "z" >>) >> }

\* a msg in a loop: mov a, 2 / loop: / msg a, ' ' / dec a / cmp a, 0 / jne loop / end
program_countdown ==
    << Line2(w_mov, << "a" >>, << "2" >>),
       << "l", "o", "o", "p", ":" >>,
       Line2(w_msg, << "a" >>, << "'", " ", "'" >>),
       Line1(w_dec, << "a" >>),
       Line2(w_cmp, << "a" >>, << "0" >>),
       Line1(w_jne, << "l", "o", "o", "p" >>),
       w_end >>

\* lines of whitespace and comments around an instruction:
\* (three spaces) / (tab); c / msg 'x' ; c / ;end / end
program_blank ==
    << << " ", " ", " " >>,
       << "\t", ";", " ", "c" >>,
       << "m", "s", "g", " ", "'", "x", "'", " ", ";", " ", "c" >>,
       << ";", "e", "n", "d" >>,
       w_end >>

\* an end inside a subroutine, with instructions after it:
\* msg 'a' / call f / msg 'n' / f: / msg 'y' / end / msg 'z' / ret
program_end_in_call ==
    << Line1(w_msg, << "'", "a", "'" >>),
       Line1(w_call, << "f" >>),
       Line1(w_msg, << "'", "n", "'" >>),
       << "f", ":" >>,
       Line1(w_msg, << "'", "y", "'" >>),
       w_end,
       Line1(w_msg, << "'", "z", "'" >>),
       w_ret >>

\* the dividends and the divisors of DivPrograms
Dividends == { << "-", "7" >>, << "7" >>, << "6" >>, << "0" >> }
Divisors == { << "-", "2" >>, << "2" >>, << "3" >>, << "0" >> }

\* mov a, x / div a, y / msg a / end
DivProgram(x, y) ==
    << Line2(w_mov, << "a" >>, x),
       Line2(w_div, << "a" >>, y),
       Line1(w_msg, << "a" >>),
       w_end >>

DivPrograms == { DivProgram(x, y) : x \in Dividends, y \in Divisors }

\* a loop that changes nothing: mov a, 1 / spin: / cmp a, 0 / jne spin / msg a / end
program_spin ==
    << Line2(w_mov, << "a" >>, << "1" >>),
       << "s", "p", "i", "n", ":" >>,
       Line2(w_cmp, << "a" >>, << "0" >>),
       Line1(w_jne, << "s", "p", "i", "n" >>),
       Line1(w_msg, << "a" >>),
       w_end >>

\* a conditional jump to a label no line defines:
\* mov a, x / cmp a, 0 / <jump> g / msg 'n' / end
UndefinedLabelProgram(x, jump) ==
    << Line2(w_mov, << "a" >>, x),
       Line2(w_cmp, << "a" >>, << "0" >>),
       Line1(jump, << "g" >>),
       Line1(w_msg, << "'", "n", "'" >>),
       w_end >>

UndefinedLabelPrograms ==
    { UndefinedLabelProgram(x, jump) : x \in CmpOperands, jump \in CondJumps }

\* a call that changes the compared register between a cmp and its jump:
\* mov a, 2 / cmp a, 0 / call f / jne t / msg 'n' / t: / end / f: / add a, 1 / ret
program_cmp_call_jump ==
    << Line2(w_mov, << "a" >>, << "2" >>),
       Line2(w_cmp, << "a" >>, << "0" >>),
       Line1(w_call, << "f" >>),
       Line1(w_jne, << "t" >>),
       Line1(w_msg, << "'", "n", "'" >>),
       << "t", ":" >>,
       w_end,
       << "f", ":" >>,
       Line2(w_add, << "a" >>, << "1" >>),
       w_ret >>

\* a call on the last line: jmp c / f: / msg 'y' / ret / c: / call f
program_return_to_end ==
    << Line1(w_jmp, << "c" >>),
       << "f", ":" >>,
       Line1(w_msg, << "'", "y", "'" >>),
       w_ret,
       << "c", ":" >>,
       Line1(w_call, << "f" >>) >>

\* a conditional jump before any cmp: <jump> f / msg 'n' / f: / end
NoCmpProgram(jump) ==
    << Line1(jump, << "f" >>),
       Line1(w_msg, << "'", "n", "'" >>),
       << "f", ":" >>,
       w_end >>

NoCmpPrograms == { NoCmpProgram(jump) : jump \in CondJumps }

TestPrograms ==
    { program_first, program_factorial, program_fibonacci, program_mod,
      program_gcd, program_fail, program_power }

Programs ==
    FreePrograms \cup CmpPrograms \cup TestPrograms \cup MalformedPrograms
        \cup FailingPrograms \cup DivPrograms \cup UndefinedLabelPrograms \cup NoCmpPrograms \cup { program_countdown, program_blank, program_end_in_call, program_spin,
              program_cmp_call_jump, program_return_to_end }

\* the programs of the first and of the second of two instances
PairPrograms ==
    TestPrograms
        \cup { CmpProgram(<< "2" >>, << "0" >>, w_jge),
               \* msg 'x' / nop / end
               << Line1(w_msg, << "'", "x", "'" >>), << "n", "o", "p" >>, w_end >> }
PartnerPrograms ==
    { program_first, program_countdown, program_end_in_call,
      \* msg 'x' / ret / end
      << Line1(w_msg, << "'", "x", "'" >>), w_ret, w_end >> }

\* the characters TokLines are made of
TokChars == { "a", "1", "-", "'", ";", ":", " ", "," }

\* every line of at most MaxLineLen characters of TokChars
TokLines == UNION { [1..n -> TokChars] : n \in 0..MaxLineLen }

\* the opcodes, the operands and the separators OperandLines are made of:
\* identifiers, integer literals, and quoted strings with spaces and
\* punctuation inside
OperandOpcodes == { w_mov, w_msg, label_command }
OperandTokens ==
    { << "a" >>,                                \* a
      << "x", "_", "1" >>,                      \* x_1
      << "5" >>,                                \* 5
      << "-", "7" >>,                           \* -7
      << "'", "h", " ", "i", "'" >>,            \* 'h i'
      << "'", "a", ",", " ", "b", "'" >>,       \* 'a, b'
      << "'", "(", ";", ")", "-", "1", ":", "'" >> }   \* '(;)-1:'
Separators ==
    { << " " >>, << "," >>, << ",", " " >>, << " ", " " >>, << " ", ",", " " >> }

\* the line of an opcode and operands, each operand after the separator sep
RECURSIVE OperandLine(_, _, _)
OperandLine(command, args, sep) ==
    IF args = << >> THEN command
    ELSE OperandLine(command \o sep \o Head(args), Tail(args), sep)

\* how a line of OperandLines was made: its opcode and its operands
NoSource == [built |-> FALSE, command |-> << >>, args |-> << >>]
Source(command, args) == [built |-> TRUE, command |-> command, args |-> args]

\* the operand lists of at most MaxOperands operands
OperandLists == UNION { [1..n -> OperandTokens] : n \in 0..MaxOperands }

\* the opcode of src/simple.py that src/part_2.py does not have
w_jnz == << "j", "n", "z" >>

\* the command "op a b" of src/simple.py
Command2(op, a, b) == op \o << " " >> \o a \o << " " >> \o b

\* the commands SimplePrograms are made of
SimpleLines ==
    { Command2(w_mov, << "a" >>, << "2" >>),         \* mov a 2
      Command2(w_mov, << "a" >>, << "0" >>),         \* mov a 0
      Command2(w_mov, << "b" >>, << "a" >>),         \* mov b a
      Line1(w_inc, << "a" >>),                       \* inc a
      Line1(w_dec, << "a" >>),                       \* dec a
      Command2(w_jnz, << "a" >>, << "-", "1" >>),    \* jnz a -1
      Command2(w_jnz, << "a" >>, << "-", "2" >>),    \* jnz a -2
      Command2(w_jnz, << "a" >>, << "2" >>),         \* jnz a 2
      Command2(w_jnz, << "1" >>, << "b" >>),         \* jnz 1 b
      << "n", "o", "p" >> }                          \* nop

\* every program of at most MaxSimpleLines commands of SimpleLines, and the
\* program at the end of src/simple.py
program_simple ==
    << Command2(w_mov, << "a" >>, << "5" >>),
       Line1(w_inc, << "a" >>),
       Line1(w_dec, << "a" >>),
       Line1(w_dec, << "a" >>),
       Command2(w_jnz, << "a" >>, << "-", "1" >>),
       Line1(w_inc, << "a" >>) >>

SimplePrograms ==
    UNION { [1..n -> SimpleLines] : n \in 0..MaxSimpleLines } \cup { program_simple }

(***************************************************************************)
(* State                                                                   *)
(***************************************************************************)

VARIABLES
    commands,             \* Interpreter.commands: the stripped source lines
    parsed_instructions,  \* Interpreter.parsed_instructions
    labels,               \* Interpreter.labels: label name -> index
    command_index,        \* Interpreter.command_index
    registers,            \* Interpreter.registers: register name -> value
    call_stack,           \* Interpreter.call_stack
    cmp_flag,             \* Interpreter._cmp_flag
    success_flag,         \* Interpreter.success_flag
    messages,             \* Interpreter.messages
    phase,                \* "running", "returned" or "raised" (an exception left run_parsed)
    error,                \* the exception that left the run, "" if none
    result,               \* what assembler_interpreter returned
    steps,                \* the instructions dispatched so far
    last,                 \* history: the instruction dispatched last
    prev,                 \* history: the instruction dispatched before it
    pending_calls,        \* history: the indices of the calls not yet returned from
    emitted,              \* history: the index and the fragment of every msg executed
    end_executed,         \* history: whether end has been executed
    mark,                 \* history: the run's state after its first jump back
    recurred,             \* history: whether the run has been in that state again
    tok_line,             \* the line given to parse_instruction
    tok_src,              \* history: the opcode and operands tok_line was made of
    tok_out,              \* what parse_instruction returned for it
    kata_out,             \* what parse_instruction of the kata file returned for it
    tok_done,             \* whether parse_instruction has returned
    s_commands,           \* SimpleAssemblerInterpreter.commands
    s_command_index,      \* SimpleAssemblerInterpreter.command_index
    s_registers,          \* SimpleAssemblerInterpreter.registers
    s_phase,              \* "running", "returned" or "raised" (an exception left run)
    s_error,              \* the exception that left run, "" if none
    s_steps,              \* the commands run so far
    s_last,               \* history: the command run last
    mode,                 \* "single"; or "alone1", "alone2", "both": see SpecPair
    active,               \* which of two instances the fields above belong to
    other,                \* the fields of the instance that is not running
    alone                 \* history: how each of the two programs ended, run alone

engine_vars ==
    << commands, parsed_instructions, labels, command_index, registers, call_stack,
       cmp_flag, success_flag, messages, phase, error, result, steps >>

history_vars == << last, prev, pending_calls, emitted, end_executed, mark, recurred >>

tok_vars == << tok_line, tok_src, tok_out, kata_out, tok_done >>

simple_vars ==
    << s_commands, s_command_index, s_registers, s_phase, s_error, s_steps, s_last >>

pair_vars == << mode, active, other, alone >>

\* the variables of the other machines of the module
outside_vars == << tok_vars, simple_vars, pair_vars >>

vars == << engine_vars, history_vars, tok_vars, simple_vars, pair_vars >>

\* an empty dict, and d[k] = v
EmptyDict == [k \in {} |-> None]
DictSet(d, k, v) == [x \in DOMAIN d \cup {k} |-> IF x = k THEN v ELSE d[x]]

\* the results of assembler_interpreter: a str, the int -1, or none yet
NoResult == [kind |-> "none", text |-> << >>, num |-> 0]
StrResult(text) == [kind |-> "str", text |-> text, num |-> 0]
IntResult(num) == [kind |-> "int", text |-> << >>, num |-> num]

\* history of one dispatched instruction: its command and index, the values
\* its operands resolved to, whether it read a register that was never
\* written, the depth of the call stack and the index of the innermost
\* pending call before it, and the label it jumped to (<< >> if it did not)
NoLast ==
    [op |-> << >>, pc |-> 0 - 1, x |-> None, y |-> None, unset |-> FALSE,
     depth |-> 0, site |-> 0 - 1, target |-> << >>]

\* everything the next instruction and its effect depend on
Core == << command_index, registers, call_stack, cmp_flag, success_flag, messages >>

\* no jump back so far
NoMark ==
    [set |-> FALSE, core |-> << 0, EmptyDict, << >>, None, FALSE, << >> >>]

(***************************************************************************)
(* Loading: Interpreter.__init__                                           *)
(***************************************************************************)

\* parse_labels recording the index of the label line itself
RECURSIVE parse_labels_same_index(_, _, _)
parse_labels_same_index(instructions, index, acc) ==
    IF ~(index < Len(instructions)) THEN acc
    ELSE LET instruction == At(instructions, index)
         IN  IF instruction.command = label_command /\ instruction.args # << >>
             THEN parse_labels_same_index(instructions, index + 1,
                                          DictSet(acc, instruction.args[1], index))
             ELSE parse_labels_same_index(instructions, index + 1, acc)

\* parse_labels keeping the first definition of a label
RECURSIVE parse_labels_first_wins(_, _, _)
parse_labels_first_wins(instructions, index, acc) ==
    IF ~(index < Len(instructions)) THEN acc
    ELSE LET instruction == At(instructions, index)
         IN  IF /\ instruction.command = label_command
                /\ instruction.args # << >>
                /\ instruction.args[1] \notin DOMAIN acc
             THEN parse_labels_first_wins(instructions, index + 1,
                                          DictSet(acc, instruction.args[1], index + 1))
             ELSE parse_labels_first_wins(instructions, index + 1, acc)

\* Interpreter.parse_labels: the label of a later line replaces an earlier one
RECURSIVE parse_labels(_, _, _)
parse_labels(instructions, index, acc) ==
    IF ~(index < Len(instructions)) THEN acc
    ELSE LET instruction == At(instructions, index)
         IN  IF instruction.command = label_command /\ instruction.args # << >>
             THEN parse_labels(instructions, index + 1,
                               DictSet(acc, instruction.args[1], index + 1))
             ELSE parse_labels(instructions, index + 1, acc)

\* parse_labels reads args[0] of every _label instruction: an IndexError when
\* the line was the bare word _label
LabelsFail(instructions) ==
    \E k \in 1..Len(instructions) :
        instructions[k].command = label_command /\ instructions[k].args = << >>

\* the state after Interpreter(program_lines), for the lines of program_lines
Loaded(lines) ==
    LET stripped == [k \in 1..Len(lines) |-> strip(lines[k])]
        parsed == [k \in 1..Len(lines) |-> parse_instruction(stripped[k])]
    IN  /\ commands = stripped
        /\ parsed_instructions = parsed
        /\ labels = parse_labels(parsed, 0, EmptyDict)
        /\ command_index = 0
        /\ registers = EmptyDict
        /\ call_stack = << >>
        /\ cmp_flag = None
        /\ success_flag = FALSE
        /\ messages = << >>
        /\ phase = IF LabelsFail(parsed) THEN "raised" ELSE "running"
        /\ error = IF LabelsFail(parsed) THEN "IndexError" ELSE ""
        /\ result = NoResult
        /\ steps = 0
        /\ last = NoLast
        /\ prev = NoLast
        /\ pending_calls = << >>
        /\ emitted = << >>
        /\ end_executed = FALSE
        /\ mark = NoMark
        /\ recurred = FALSE

\* the fields of an Interpreter just constructed for these lines
NewInstance(lines) ==
    LET stripped == [k \in 1..Len(lines) |-> strip(lines[k])]
        parsed == [k \in 1..Len(lines) |-> parse_instruction(stripped[k])]
    IN  [commands |-> stripped,
         parsed_instructions |-> parsed,
         labels |-> parse_labels(parsed, 0, EmptyDict),
         command_index |-> 0,
         registers |-> EmptyDict,
         call_stack |-> << >>,
         cmp_flag |-> None,
         success_flag |-> FALSE,
         messages |-> << >>,
         phase |-> IF LabelsFail(parsed) THEN "raised" ELSE "running",
         error |-> IF LabelsFail(parsed) THEN "IndexError" ELSE "",
         result |-> NoResult,
         steps |-> 0,
         last |-> NoLast,
         prev |-> NoLast,
         pending_calls |-> << >>,
         emitted |-> << >>,
         end_executed |-> FALSE,
         mark |-> NoMark,
         recurred |-> FALSE]

\* the fields of the instance that is running
Snapshot ==
    [commands |-> commands,
     parsed_instructions |-> parsed_instructions,
     labels |-> labels,
     command_index |-> command_index,
     registers |-> registers,
     call_stack |-> call_stack,
     cmp_flag |-> cmp_flag,
     success_flag |-> success_flag,
     messages |-> messages,
     phase |-> phase,
     error |-> error,
     result |-> result,
     steps |-> steps,
     last |-> last,
     prev |-> prev,
     pending_calls |-> pending_calls,
     emitted |-> emitted,
     end_executed |-> end_executed,
     mark |-> mark,
     recurred |-> recurred]

\* the instance with these fields is the one that runs next
Install(r) ==
    /\ commands' = r.commands
    /\ parsed_instructions' = r.parsed_instructions
    /\ labels' = r.labels
    /\ command_index' = r.command_index
    /\ registers' = r.registers
    /\ call_stack' = r.call_stack
    /\ cmp_flag' = r.cmp_flag
    /\ success_flag' = r.success_flag
    /\ messages' = r.messages
    /\ phase' = r.phase
    /\ error' = r.error
    /\ result' = r.result
    /\ steps' = r.steps
    /\ last' = r.last
    /\ prev' = r.prev
    /\ pending_calls' = r.pending_calls
    /\ emitted' = r.emitted
    /\ end_executed' = r.end_executed
    /\ mark' = r.mark
    /\ recurred' = r.recurred

\* one instance only
PairIdle ==
    /\ mode = "single"
    /\ active = 1
    /\ other = NewInstance(<< >>)
    /\ alone = << NewInstance(<< >>), NewInstance(<< >>) >>

\* no line given to the tokenizer
TokIdle ==
    /\ tok_line = << >>
    /\ tok_src = NoSource
    /\ tok_out = Parsed(<< >>, << >>)
    /\ kata_out = Parsed(<< >>, << >>)
    /\ tok_done = TRUE

\* history of one command of SimpleAssemblerInterpreter: its name, its
\* index, the values its operands resolved to, the registers before it
NoSimpleLast ==
    [op |-> << >>, pc |-> 0 - 1, x |-> None, y |-> None, regs |-> EmptyDict]

\* SimpleAssemblerInterpreter.__init__
SimpleLoaded(program) ==
    /\ s_commands = program
    /\ s_command_index = 0
    /\ s_registers = EmptyDict
    /\ s_phase = "running"
    /\ s_error = ""
    /\ s_steps = 0
    /\ s_last = NoSimpleLast

Init ==
    /\ \E lines \in Programs : Loaded(lines)
    /\ TokIdle
    /\ SimpleLoaded(<< >>)
    /\ PairIdle

(***************************************************************************)
(* Execution: Interpreter.run_parsed and the instruction handlers          *)
(***************************************************************************)

\* the instruction run_parsed fetches
Cur == At(parsed_instructions, command_index)

\* run_parsed is in its loop and fetches an instruction with this command
Dispatch(command) ==
    /\ phase = "running"
    /\ command_index < Len(parsed_instructions)
    /\ steps < MaxSteps
    /\ Cur.command = command

\* a run loop that catches the exception of a handler and leaves the loop
Update_caught(ci, regs, stack, flag, succ, msgs, err) ==
    /\ command_index' = IF err = "" THEN ci ELSE Len(parsed_instructions)
    /\ registers' = regs
    /\ call_stack' = stack
    /\ cmp_flag' = flag
    /\ success_flag' = succ
    /\ messages' = msgs
    /\ phase' = "running"
    /\ error' = err
    /\ steps' = steps + 1
    /\ UNCHANGED << commands, parsed_instructions, labels, result, outside_vars >>

\* the state after a handler: the fields it wrote, and the exception it
\* raised ("" when it returned)
\* run_parsed giving up after a number of instructions
Update_step_limit(ci, regs, stack, flag, succ, msgs, err) ==
    /\ command_index' = IF steps >= 20 THEN Len(commands) ELSE ci
    /\ registers' = regs
    /\ call_stack' = stack
    /\ cmp_flag' = flag
    /\ success_flag' = succ
    /\ messages' = msgs
    /\ phase' = IF err = "" THEN "running" ELSE "raised"
    /\ error' = err
    /\ steps' = steps + 1
    /\ UNCHANGED << commands, parsed_instructions, labels, result, outside_vars >>

Update(ci, regs, stack, flag, succ, msgs, err) ==
    /\ command_index' = ci
    /\ registers' = regs
    /\ call_stack' = stack
    /\ cmp_flag' = flag
    /\ success_flag' = succ
    /\ messages' = msgs
    /\ phase' = IF err = "" THEN "running" ELSE "raised"
    /\ error' = err
    /\ steps' = steps + 1
    /\ UNCHANGED << commands, parsed_instructions, labels, result, outside_vars >>

\* a handler that raises before it writes anything
Raise(err) ==
    Update(command_index, registers, call_stack, cmp_flag, success_flag, messages, err)

\* a handler that only sets command_index
Goto(ci) == Update(ci, registers, call_stack, cmp_flag, success_flag, messages, "")

\* a handler that writes registers and calls inc_ci
SetRegisters(regs) ==
    Update(command_index + 1, regs, call_stack, cmp_flag, success_flag, messages, "")

\* history of the instruction dispatched
Note(x, y, unset, target) ==
    /\ last' = [op |-> Cur.command, pc |-> command_index, x |-> x, y |-> y,
                unset |-> unset, depth |-> Len(call_stack),
                site |-> IF pending_calls = << >> THEN 0 - 1
                         ELSE pending_calls[Len(pending_calls)],
                target |-> target]
    /\ prev' = last
    /\ mark' = IF ~mark.set /\ error' = "" /\ command_index' <= command_index
               THEN [set |-> TRUE, core |-> Core']
               ELSE mark
    /\ recurred' = (recurred \/ (mark.set /\ error' = "" /\ Core' = mark.core))

\* history of an instruction that is no call, ret, msg or end
Plain(x, y, unset, target) ==
    /\ Note(x, y, unset, target)
    /\ UNCHANGED << pending_calls, emitted, end_executed >>

\* Interpreter._get_value
get_value(constant_or_register) ==
    IF IsIntLiteral(constant_or_register) THEN IntV(int(constant_or_register))
    ELSE IF constant_or_register \in DOMAIN registers
    THEN registers[constant_or_register]
    ELSE None

\* whether a token is a name: a run of valid symbols
IsName(token) == token # << >> /\ \A k \in 1..Len(token) : valid_symbol(token[k])

\* whether _get_value(token) looks up a register name that was never written
ReadsUnset(token) ==
    IsName(token) /\ ~IsIntLiteral(token) /\ token \notin DOMAIN registers

\* Interpreter.inc_ci, dispatched for '', '_label' and ';'
inc_ci ==
    /\ \E command \in inc_ci_commands : Dispatch(command)
    /\ Goto(command_index + 1)
    /\ Plain(None, None, FALSE, << >>)

\* a command that is no key of available_instructions: KeyError
unknown_command ==
    /\ phase = "running"
    /\ command_index < Len(parsed_instructions)
    /\ steps < MaxSteps
    /\ Cur.command \notin available_instructions
    /\ Raise("KeyError")
    /\ Plain(None, None, FALSE, << >>)

\* a handler called with the wrong number of arguments: TypeError
BadCall == Raise("TypeError") /\ Plain(None, None, FALSE, << >>)

\* Interpreter.mov
mov ==
    /\ Dispatch(w_mov)
    /\ IF Len(Cur.args) # 2 THEN BadCall
       ELSE LET register == Cur.args[1]
                value == get_value(Cur.args[2])
            IN  /\ SetRegisters(DictSet(registers, register, value))
                /\ Plain(None, value, ReadsUnset(Cur.args[2]), << >>)

\* inc and dec starting a register that was never written at 0
IncDec_creates(delta) ==
    IF Len(Cur.args) # 1 THEN BadCall
    ELSE LET register == Cur.args[1]
             old == IF register \in DOMAIN registers THEN registers[register] ELSE IntV(0)
         IN  /\ IF old.none THEN Raise("TypeError")
                ELSE SetRegisters(DictSet(registers, register, IntV(old.n + delta)))
             /\ Plain(old, None, register \notin DOMAIN registers, << >>)

\* registers[register] += 1 and -= 1
IncDec(delta) ==
    IF Len(Cur.args) # 1 THEN BadCall
    ELSE LET register == Cur.args[1]
         IN  /\ IF register \notin DOMAIN registers THEN Raise("KeyError")
                ELSE IF registers[register].none THEN Raise("TypeError")
                ELSE SetRegisters(DictSet(registers, register,
                                          IntV(registers[register].n + delta)))
             /\ Plain(IF register \in DOMAIN registers THEN registers[register] ELSE None,
                      None, register \notin DOMAIN registers, << >>)

\* Interpreter.inc
inc == Dispatch(w_inc) /\ IncDec(1)

\* Interpreter.dec
dec == Dispatch(w_dec) /\ IncDec(0 - 1)

\* the value registers[register] op= value stores, for ints a and b
Apply(op, a, b) ==
    CASE op = w_add -> a + b
      [] op = w_sub -> a - b
      [] op = w_mul -> a * b
      [] op = w_div -> FloorDiv(a, b)

\* an arithmetic instruction that leaves its result in the flag as well
Arith_sets_flag(op) ==
    IF Len(Cur.args) # 2 THEN BadCall
    ELSE LET register == Cur.args[1]
             value == get_value(Cur.args[2])
         IN  /\ IF register \notin DOMAIN registers THEN Raise("KeyError")
                ELSE IF registers[register].none \/ value.none THEN Raise("TypeError")
                ELSE IF op = w_div /\ value.n = 0 THEN Raise("ZeroDivisionError")
                ELSE LET n == Apply(op, registers[register].n, value.n)
                     IN  Update(command_index + 1, DictSet(registers, register, IntV(n)),
                                call_stack, IntV(n), success_flag, messages, "")
             /\ Plain(IF register \in DOMAIN registers THEN registers[register] ELSE None,
                      value,
                      register \notin DOMAIN registers \/ ReadsUnset(Cur.args[2]),
                      << >>)

\* registers[register] op= self._get_value(constant_or_register): the
\* register is read first, then the operand is resolved
Arith(op) ==
    IF Len(Cur.args) # 2 THEN BadCall
    ELSE LET register == Cur.args[1]
             value == get_value(Cur.args[2])
         IN  /\ IF register \notin DOMAIN registers THEN Raise("KeyError")
                ELSE IF registers[register].none \/ value.none THEN Raise("TypeError")
                ELSE IF op = w_div /\ value.n = 0 THEN Raise("ZeroDivisionError")
                ELSE SetRegisters(DictSet(registers, register,
                                          IntV(Apply(op, registers[register].n, value.n))))
             /\ Plain(IF register \in DOMAIN registers THEN registers[register] ELSE None,
                      value,
                      register \notin DOMAIN registers \/ ReadsUnset(Cur.args[2]),
                      << >>)

\* Interpreter.add
add == Dispatch(w_add) /\ Arith(w_add)

\* Interpreter.sub
sub == Dispatch(w_sub) /\ Arith(w_sub)

\* Interpreter.mul
mul == Dispatch(w_mul) /\ Arith(w_mul)

\* Interpreter.div
div == Dispatch(w_div) /\ Arith(w_div)

\* Interpreter.jmp as the other handlers call it: command_index = labels[label]
JumpTo(label, stack) ==
    IF label \in DOMAIN labels
    THEN Update(labels[label], registers, stack, cmp_flag, success_flag, messages, "")
    ELSE Update(command_index, registers, stack, cmp_flag, success_flag, messages,
                "KeyError")

\* Interpreter.jmp
jmp ==
    /\ Dispatch(w_jmp)
    /\ IF Len(Cur.args) # 1 THEN BadCall
       ELSE /\ JumpTo(Cur.args[1], call_stack)
            /\ Plain(None, None, FALSE, Cur.args[1])

\* Interpreter.cmp
cmp ==
    /\ Dispatch(w_cmp)
    /\ IF Len(Cur.args) # 2 THEN BadCall
       ELSE LET x == get_value(Cur.args[1])
                y == get_value(Cur.args[2])
            IN  /\ IF x.none \/ y.none THEN Raise("TypeError")
                   ELSE Update(command_index + 1, registers, call_stack, IntV(x.n - y.n),
                               success_flag, messages, "")
                /\ Plain(x, y, ReadsUnset(Cur.args[1]) \/ ReadsUnset(Cur.args[2]), << >>)

\* the conditions of the conditional jumps on _cmp_flag; jne and je test its
\* truth value, which None has (false), the others compare it with 0
jne_taken(flag) == ~flag.none /\ flag.n # 0
\* je comparing the flag with 0: None is not 0
je_taken_compared(flag) == ~flag.none /\ flag.n = 0
je_taken(flag) == flag.none \/ flag.n = 0
\* jge jumping only when x was greater than y
jge_taken_strict(flag) == flag.n > 0
jge_taken(flag) == flag.n >= 0
jg_taken(flag) == flag.n > 0
jle_taken(flag) == flag.n <= 0
jl_taken(flag) == flag.n < 0

\* a conditional jump that looks its label up before it tests the flag
CondJump_eager_lookup(taken, compares) ==
    IF Len(Cur.args) # 1 THEN BadCall
    ELSE /\ IF compares /\ cmp_flag.none THEN Raise("TypeError")
            ELSE IF Cur.args[1] \notin DOMAIN labels THEN Raise("KeyError")
            ELSE IF taken THEN JumpTo(Cur.args[1], call_stack)
            ELSE Goto(command_index + 1)
         /\ Plain(None, None, FALSE,
                  IF taken /\ ~(compares /\ cmp_flag.none) THEN Cur.args[1] ELSE << >>)

\* a conditional jump: jump when taken, inc_ci otherwise; comparing None
\* with 0 is a TypeError
CondJump(taken, compares) ==
    IF Len(Cur.args) # 1 THEN BadCall
    ELSE /\ IF compares /\ cmp_flag.none THEN Raise("TypeError")
            ELSE IF taken THEN JumpTo(Cur.args[1], call_stack)
            ELSE Goto(command_index + 1)
         /\ Plain(None, None, FALSE,
                  IF taken /\ ~(compares /\ cmp_flag.none) THEN Cur.args[1] ELSE << >>)

\* Interpreter.jne
jne == Dispatch(w_jne) /\ CondJump(jne_taken(cmp_flag), FALSE)

\* Interpreter.je
je == Dispatch(w_je) /\ CondJump(je_taken(cmp_flag), FALSE)

\* Interpreter.jge
jge == Dispatch(w_jge) /\ CondJump(jge_taken(cmp_flag), TRUE)

\* Interpreter.jg
jg == Dispatch(w_jg) /\ CondJump(jg_taken(cmp_flag), TRUE)

\* Interpreter.jle
jle == Dispatch(w_jle) /\ CondJump(jle_taken(cmp_flag), TRUE)

\* Interpreter.jl
jl == Dispatch(w_jl) /\ CondJump(jl_taken(cmp_flag), TRUE)

\* call pushing the index after the next instruction
call_skips_next ==
    /\ Dispatch(w_call)
    /\ IF Len(Cur.args) # 1 THEN BadCall
       ELSE /\ JumpTo(Cur.args[1], Append(call_stack, command_index + 2))
            /\ Note(None, None, FALSE, Cur.args[1])
            /\ pending_calls' = Append(pending_calls, command_index)
            /\ UNCHANGED << emitted, end_executed >>

\* Interpreter.call: the return address is pushed before the label is looked up
call ==
    /\ Dispatch(w_call)
    /\ IF Len(Cur.args) # 1 THEN BadCall
       ELSE /\ JumpTo(Cur.args[1], Append(call_stack, command_index + 1))
            /\ Note(None, None, FALSE, Cur.args[1])
            /\ pending_calls' = Append(pending_calls, command_index)
            /\ UNCHANGED << emitted, end_executed >>

\* call_stack.pop(0): the oldest return address instead of the newest
pop_first(stack) == [value |-> stack[1], rest |-> Tail(stack)]

\* call_stack.pop(): the value popped and the stack left
pop(stack) == [value |-> stack[Len(stack)], rest |-> SubSeq(stack, 1, Len(stack) - 1)]

\* ret leaving the program when the call stack is empty
ret_leaves_program ==
    /\ Dispatch(w_ret)
    /\ IF Len(Cur.args) # 0 THEN BadCall
       ELSE /\ IF call_stack = << >> THEN Goto(Len(commands))
               ELSE Update(pop(call_stack).value, registers, pop(call_stack).rest,
                           cmp_flag, success_flag, messages, "")
            /\ Note(None, None, FALSE, << >>)
            /\ pending_calls' = IF pending_calls = << >> THEN << >>
                                ELSE SubSeq(pending_calls, 1, Len(pending_calls) - 1)
            /\ UNCHANGED << emitted, end_executed >>

\* Interpreter.ret
ret ==
    /\ Dispatch(w_ret)
    /\ IF Len(Cur.args) # 0 THEN BadCall
       ELSE /\ IF call_stack = << >> THEN Raise("IndexError")
               ELSE Update(pop(call_stack).value, registers, pop(call_stack).rest,
                           cmp_flag, success_flag, messages, "")
            /\ Note(None, None, FALSE, << >>)
            /\ pending_calls' = IF pending_calls = << >> THEN << >>
                                ELSE SubSeq(pending_calls, 1, Len(pending_calls) - 1)
            /\ UNCHANGED << emitted, end_executed >>

\* the strings msg collects for its arguments
RECURSIVE msg_strings(_)
msg_strings(args) ==
    IF args = << >> THEN << >>
    ELSE LET arg == Head(args)
         IN  << IF startswith_quote(arg) THEN strip_quotes(arg)
                ELSE str(get_value(arg)) >> \o msg_strings(Tail(args))

\* Interpreter.msg
msg ==
    /\ Dispatch(w_msg)
    /\ Update(command_index + 1, registers, call_stack, cmp_flag, success_flag,
              Append(messages, join(msg_strings(Cur.args))), "")
    /\ Note(None, None,
            \E k \in 1..Len(Cur.args) :
                ~startswith_quote(Cur.args[k]) /\ ReadsUnset(Cur.args[k]),
            << >>)
    /\ emitted' = Append(emitted, [pc |-> command_index,
                                   text |-> join(msg_strings(Cur.args))])
    /\ UNCHANGED << end_executed, pending_calls >>

\* end going on to the next instruction
end_continues ==
    /\ Dispatch(w_end)
    /\ IF Len(Cur.args) # 0 THEN BadCall
       ELSE /\ Update(command_index + 1, registers, call_stack, cmp_flag, TRUE, messages, "")
            /\ Note(None, None, FALSE, << >>)
            /\ end_executed' = TRUE
            /\ UNCHANGED << emitted, pending_calls >>

\* Interpreter.end
end ==
    /\ Dispatch(w_end)
    /\ IF Len(Cur.args) # 0 THEN BadCall
       ELSE /\ Update(Len(commands), registers, call_stack, cmp_flag, TRUE, messages, "")
            /\ Note(None, None, FALSE, << >>)
            /\ end_executed' = TRUE
            /\ UNCHANGED << emitted, pending_calls >>

\* exit_message returning the last fragment alone
exit_message_last ==
    IF success_flag
    THEN StrResult(IF messages = << >> THEN << >> ELSE messages[Len(messages)])
    ELSE IntResult(0 - 1)

\* exit_message returning the output whenever there is some
exit_message_output ==
    IF success_flag \/ messages # << >> THEN StrResult(join(messages))
    ELSE IntResult(0 - 1)

\* Interpreter.exit_message
exit_message == IF success_flag THEN StrResult(join(messages)) ELSE IntResult(0 - 1)

\* run_parsed leaves its loop and returns exit_message()
run_parsed_return ==
    /\ phase = "running"
    /\ ~(command_index < Len(parsed_instructions))
    /\ phase' = "returned"
    /\ result' = exit_message
    /\ UNCHANGED << commands, parsed_instructions, labels, command_index, registers,
                    call_stack, cmp_flag, success_flag, messages, error, steps >>
    /\ UNCHANGED << history_vars, outside_vars >>

Next ==
    \/ inc_ci
    \/ unknown_command
    \/ mov
    \/ inc
    \/ dec
    \/ add
    \/ sub
    \/ mul
    \/ div
    \/ jmp
    \/ cmp
    \/ jne
    \/ je
    \/ jge
    \/ jg
    \/ jle
    \/ jl
    \/ call
    \/ ret
    \/ msg
    \/ end
    \/ run_parsed_return

Spec == Init /\ [][Next]_vars

(***************************************************************************)
(* The tokenizer alone: parse_instruction applied to one line              *)
(***************************************************************************)

InitTok ==
    /\ Loaded(<< >>)
    /\ \/ tok_line \in TokLines /\ tok_src = NoSource
       \/ \E command \in OperandOpcodes, args \in OperandLists, sep \in Separators :
             /\ tok_line = OperandLine(command, args, sep)
             /\ tok_src = Source(command, args)
    /\ tok_out = Parsed(<< >>, << >>)
    /\ kata_out = Parsed(<< >>, << >>)
    /\ tok_done = FALSE
    /\ SimpleLoaded(<< >>)
    /\ PairIdle

\* command, args = Interpreter.parse_instruction(tok_line), by the
\* Interpreter of src/part_2.py and by the one of src/kata/part_2_kata.py
tokenize ==
    /\ ~tok_done
    /\ tok_out' = parse_instruction(tok_line)
    /\ kata_out' = kata_parse_instruction(tok_line)
    /\ tok_done' = TRUE
    /\ UNCHANGED << tok_line, tok_src, engine_vars, history_vars, simple_vars, pair_vars >>

NextTok == tokenize

SpecTok == InitTok /\ [][NextTok]_vars

(***************************************************************************)
(* src/simple.py: SimpleAssemblerInterpreter                               *)
(***************************************************************************)

InitSimple ==
    /\ Loaded(<< >>)
    /\ TokIdle
    /\ PairIdle
    /\ \E program \in SimplePrograms : SimpleLoaded(program)

\* self.commands[self.command_index]: a negative index counts from the end
SimpleCur ==
    IF s_command_index >= 0 THEN s_commands[s_command_index + 1]
    ELSE s_commands[Len(s_commands) + s_command_index + 1]

\* command_name, *args = command.split()
SimpleWords == split(SimpleCur)
SimpleArgs == Tail(SimpleWords)

\* the loop of run takes the command at command_index
SimpleFetch ==
    /\ s_phase = "running"
    /\ s_command_index < Len(s_commands)
    /\ s_command_index >= 0 - Len(s_commands)
    /\ s_steps < MaxSimpleSteps

\* run_command dispatches to the method named by the first word
run_command(command_name) ==
    /\ SimpleFetch
    /\ SimpleWords # << >>
    /\ Head(SimpleWords) = command_name

\* SimpleAssemblerInterpreter._get_value
simple_get_value(constant_or_register) ==
    IF IsIntLiteral(constant_or_register) THEN IntV(int(constant_or_register))
    ELSE IF constant_or_register \in DOMAIN s_registers
    THEN s_registers[constant_or_register]
    ELSE None

\* the state after one command: err is the exception that left run, "" if none
SimpleUpdate(op, ci, regs, err, x, y) ==
    /\ s_command_index' = ci
    /\ s_registers' = regs
    /\ s_phase' = IF err = "" THEN "running" ELSE "raised"
    /\ s_error' = err
    /\ s_steps' = s_steps + 1
    /\ s_last' = [op |-> op, pc |-> s_command_index, x |-> x, y |-> y,
                  regs |-> s_registers]
    /\ UNCHANGED << s_commands, engine_vars, history_vars, tok_vars, pair_vars >>

\* a command that raises before it writes anything
SimpleRaise(op, err) == SimpleUpdate(op, s_command_index, s_registers, err, None, None)

\* SimpleAssemblerInterpreter.mov
simple_mov ==
    /\ run_command(w_mov)
    /\ IF Len(SimpleArgs) # 2 THEN SimpleRaise(w_mov, "TypeError")
       ELSE LET value == simple_get_value(SimpleArgs[2])
            IN  SimpleUpdate(w_mov, s_command_index + 1,
                             DictSet(s_registers, SimpleArgs[1], value), "", None, value)

\* self.registers[x] += delta; self.command_index += 1
SimpleIncDec(op, delta) ==
    IF Len(SimpleArgs) # 1 THEN SimpleRaise(op, "TypeError")
    ELSE LET x == SimpleArgs[1]
         IN  IF x \notin DOMAIN s_registers THEN SimpleRaise(op, "KeyError")
             ELSE IF s_registers[x].none THEN SimpleRaise(op, "TypeError")
             ELSE SimpleUpdate(op, s_command_index + 1,
                               DictSet(s_registers, x, IntV(s_registers[x].n + delta)),
                               "", s_registers[x], None)

\* SimpleAssemblerInterpreter.inc
simple_inc == run_command(w_inc) /\ SimpleIncDec(w_inc, 1)

\* SimpleAssemblerInterpreter.dec
simple_dec == run_command(w_dec) /\ SimpleIncDec(w_dec, 0 - 1)

\* jnz counting the offset from the command after the jnz
jnz_from_next ==
    /\ run_command(w_jnz)
    /\ IF Len(SimpleArgs) # 2 THEN SimpleRaise(w_jnz, "TypeError")
       ELSE LET x_value == simple_get_value(SimpleArgs[1])
                y_value == simple_get_value(SimpleArgs[2])
            IN  IF ~x_value.none /\ x_value.n # 0
                THEN IF y_value.none
                     THEN SimpleUpdate(w_jnz, s_command_index, s_registers, "TypeError",
                                       x_value, y_value)
                     ELSE SimpleUpdate(w_jnz, s_command_index + 1 + y_value.n, s_registers,
                                       "", x_value, y_value)
                ELSE SimpleUpdate(w_jnz, s_command_index + 1, s_registers, "",
                                  x_value, y_value)

\* SimpleAssemblerInterpreter.jnz: None and 0 are false
jnz ==
    /\ run_command(w_jnz)
    /\ IF Len(SimpleArgs) # 2 THEN SimpleRaise(w_jnz, "TypeError")
       ELSE LET x_value == simple_get_value(SimpleArgs[1])
                y_value == simple_get_value(SimpleArgs[2])
            IN  IF ~x_value.none /\ x_value.n # 0
                THEN IF y_value.none
                     THEN SimpleUpdate(w_jnz, s_command_index, s_registers, "TypeError",
                                       x_value, y_value)
                     ELSE SimpleUpdate(w_jnz, s_command_index + y_value.n, s_registers,
                                       "", x_value, y_value)
                ELSE SimpleUpdate(w_jnz, s_command_index + 1, s_registers, "",
                                  x_value, y_value)

\* the methods the commands of SimplePrograms can name
simple_methods == { w_mov, w_inc, w_dec, w_jnz }

\* run_command on a command with no word (the unpacking fails) or with a
\* first word that names no attribute (getattr fails)
simple_unknown_command ==
    /\ SimpleFetch
    /\ \/ SimpleWords = << >> /\ SimpleRaise(<< >>, "ValueError")
       \/ /\ SimpleWords # << >>
          /\ Head(SimpleWords) \notin simple_methods
          /\ SimpleRaise(Head(SimpleWords), "AttributeError")

\* self.commands[self.command_index] with an index before the first command
\* counted from the end
simple_index_error ==
    /\ s_phase = "running"
    /\ s_command_index < 0 - Len(s_commands)
    /\ s_steps < MaxSimpleSteps
    /\ SimpleRaise(<< >>, "IndexError")

\* run leaves its loop and returns self.registers
run_return ==
    /\ s_phase = "running"
    /\ ~(s_command_index < Len(s_commands))
    /\ s_phase' = "returned"
    /\ UNCHANGED << s_commands, s_command_index, s_registers, s_error, s_steps, s_last >>
    /\ UNCHANGED << engine_vars, history_vars, tok_vars, pair_vars >>

NextSimple ==
    \/ simple_mov
    \/ simple_inc
    \/ simple_dec
    \/ jnz
    \/ simple_unknown_command
    \/ simple_index_error
    \/ run_return

SpecSimple == InitSimple /\ [][NextSimple]_vars

(***************************************************************************)
(* Two Interpreter instances: each program is run alone to its end, then   *)
(* two instances are constructed for the two programs and their            *)
(* instructions are dispatched in any interleaving                         *)
(***************************************************************************)

InitPair ==
    /\ \E lines \in PairPrograms : Loaded(lines)
    /\ TokIdle
    /\ SimpleLoaded(<< >>)
    /\ mode = "alone1"
    /\ active = 1
    /\ other = NewInstance(<< >>)
    /\ alone = << NewInstance(<< >>), NewInstance(<< >>) >>

\* the run of the instance with these fields is over, or followed no further
Stopped(r) ==
    \/ r.phase # "running"
    \/ r.steps >= MaxSteps /\ r.command_index < Len(r.parsed_instructions)

\* the first program has been run alone: the second is run alone
run_second_alone ==
    /\ mode = "alone1"
    /\ Stopped(Snapshot)
    /\ \E lines \in PartnerPrograms : Install(NewInstance(lines))
    /\ alone' = [alone EXCEPT ![1] = Snapshot]
    /\ mode' = "alone2"
    /\ UNCHANGED << active, other, tok_vars, simple_vars >>

\* both programs have been run alone: an instance is constructed for each
run_both ==
    /\ mode = "alone2"
    /\ Stopped(Snapshot)
    /\ Install(NewInstance(alone[1].commands))
    /\ other' = NewInstance(commands)
    /\ alone' = [alone EXCEPT ![2] = Snapshot]
    /\ mode' = "both"
    /\ active' = 1
    /\ UNCHANGED << tok_vars, simple_vars >>

\* a switch that leaves the registers where they are: one dict for both
switch_shared_registers ==
    /\ mode = "both"
    /\ ~Stopped(other)
    /\ Install([other EXCEPT !.registers = registers])
    /\ other' = Snapshot
    /\ active' = 3 - active
    /\ UNCHANGED << mode, alone, tok_vars, simple_vars >>

\* the next instruction dispatched is of the other instance: every field is
\* an attribute of its instance
switch ==
    /\ mode = "both"
    /\ ~Stopped(other)
    /\ Install(other)
    /\ other' = Snapshot
    /\ active' = 3 - active
    /\ UNCHANGED << mode, alone, tok_vars, simple_vars >>

NextPair ==
    \/ Next
    \/ run_second_alone
    \/ run_both
    \/ switch

SpecPair == InitPair /\ [][NextPair]_vars

(***************************************************************************)
(* Properties                                                              *)
(***************************************************************************)

\* the exceptions a handler or the dispatch can raise
Exceptions == { "KeyError", "TypeError", "IndexError", "ZeroDivisionError" }

\* the fragments of the msg instructions executed, in execution order
EmittedTexts == [k \in 1..Len(emitted) |-> emitted[k].text]

\* C1: a run that executed end returns the concatenation, in execution order,
\* of the fragment of every msg instruction executed, one fragment for each
\* execution of a msg
C1_EndReturnsEveryFragment ==
    (phase = "returned" /\ end_executed) => result = StrResult(join(EmittedTexts))

\* a run returned after end, having executed the msg of one line twice
C1_Witness ==
    /\ phase = "returned"
    /\ end_executed
    /\ \E i, j \in 1..Len(emitted) : i < j /\ emitted[i].pc = emitted[j].pc

\* C2: a run that leaves the program without having executed end returns -1,
\* whatever output it had accumulated
C2_NoEndReturnsMinusOne ==
    (phase = "returned" /\ ~end_executed) => result = IntResult(0 - 1)

\* a run returned without end after it had executed a msg
C2_Witness ==
    /\ phase = "returned"
    /\ ~end_executed
    /\ emitted # << >>
    /\ result = IntResult(0 - 1)

\* C3 as stated: a run that hit a fatal error has the failure sentinel -1 as
\* its result
C3_FatalErrorReturnsSentinel == phase = "raised" => result = IntResult(0 - 1)

\* C3 as amended: a run that hits a fatal error returns nothing, neither its
\* output nor -1: the exception leaves run_parsed; a run that returns raised
\* no exception and returns a str or -1
C3_FatalErrorPropagates ==
    /\ phase = "raised" => (result = NoResult /\ error \in Exceptions)
    /\ phase = "returned" =>
           (error = "" /\ (result.kind = "str" \/ result = IntResult(0 - 1)))

\* a run stopped by a division by zero after it had executed a msg
C3_Witness ==
    /\ phase = "raised"
    /\ error = "ZeroDivisionError"
    /\ emitted # << >>
    /\ result = NoResult

\* x ? y for the comparison a conditional jump stands for
CondRelation(jump, x, y) ==
    CASE jump = w_je -> x = y
      [] jump = w_jne -> x # y
      [] jump = w_jge -> x >= y
      [] jump = w_jg -> x > y
      [] jump = w_jle -> x <= y
      [] jump = w_jl -> x < y

\* the arguments of the instruction dispatched last
LastArgs == At(parsed_instructions, last.pc).args

\* a conditional jump to an existing label was dispatched right after a cmp
\* of two ints
CmpThenJump ==
    /\ last.op \in CondJumps
    /\ prev.op = w_cmp
    /\ ~prev.x.none
    /\ ~prev.y.none
    /\ Len(LastArgs) = 1
    /\ LastArgs[1] \in DOMAIN labels

\* C4: cmp x, y and then at once a conditional jump to an existing label L
\* sets command_index to the target of L exactly when je: x = y, jne: x # y,
\* jge: x >= y, jg: x > y, jle: x <= y, jl: x < y, and to the index after the
\* jump otherwise
C4_JumpIffRelation ==
    CmpThenJump =>
        /\ error = ""
        /\ command_index = IF CondRelation(last.op, prev.x.n, prev.y.n)
                           THEN labels[LastArgs[1]]
                           ELSE last.pc + 1

\* jge was dispatched after a cmp of two equal ints and jumped
C4_Witness ==
    /\ CmpThenJump
    /\ last.op = w_jge
    /\ prev.x = prev.y
    /\ command_index = labels[LastArgs[1]]
    /\ command_index # last.pc + 1

\* C5: the call stack holds, oldest first, the index after each call not yet
\* returned from, and a ret sets command_index to the index after the
\* innermost of them and pops that one address
C5_RetResumesAfterCall ==
    /\ Len(call_stack) = Len(pending_calls)
    /\ \A k \in 1..Len(call_stack) : call_stack[k] = pending_calls[k] + 1
    /\ (last.op = w_ret /\ error = "") =>
           /\ last.depth > 0
           /\ command_index = last.site + 1
           /\ Len(call_stack) = last.depth - 1

\* a ret returned from the innermost of three nested calls
C5_Witness ==
    /\ last.op = w_ret
    /\ error = ""
    /\ last.depth >= 3
    /\ command_index = last.site + 1

\* C6 as stated: an instruction that resolves an operand naming a register
\* that was never written fails
C6_UnsetRegisterFails == last.unset => error # ""

\* the index of the first ";" of line outside quotes, or len(line)
RECURSIVE CommentStart(_, _, _)
CommentStart(line, i, quoted) ==
    IF ~(i < Len(line)) THEN i
    ELSE IF At(line, i) = "'" THEN CommentStart(line, i + 1, ~quoted)
    ELSE IF At(line, i) = ";" /\ ~quoted THEN i
    ELSE CommentStart(line, i + 1, quoted)

\* the line without its comment
BeforeComment(line) == Slice(line, 0, CommentStart(line, 0, FALSE))

\* C7 as stated: the instruction a line tokenizes to is the one its part
\* before the first ";" outside quotes tokenizes to
C7_CommentIgnored ==
    tok_done => tok_out = parse_instruction(BeforeComment(tok_line))

\* whether a line has, before its comment, a quote that is not closed or a
\* "-" that no digit follows
RECURSIVE Malformed(_, _, _)
Malformed(line, i, quoted) ==
    IF ~(i < Len(line)) THEN quoted
    ELSE IF quoted THEN Malformed(line, i + 1, At(line, i) # "'")
    ELSE IF At(line, i) = ";" THEN FALSE
    ELSE IF At(line, i) = "'" THEN Malformed(line, i + 1, TRUE)
    ELSE IF At(line, i) = "-"
    THEN IF i + 1 < Len(line) /\ isdigit(At(line, i + 1))
         THEN Malformed(line, i + 1, FALSE)
         ELSE TRUE
    ELSE Malformed(line, i + 1, FALSE)

\* C8 as stated: no instruction of a program with a malformed line executes
C8_MalformedLineAbortsLoad ==
    (\E k \in 1..Len(commands) : Malformed(commands[k], 0, FALSE)) => steps = 0

\* whether a stripped line starts with an identifier run followed by ":",
\* and the identifier
IsLabelLine(line) ==
    \E n \in 1..(Len(line) - 1) :
        /\ \A k \in 1..n : valid_symbol(line[k])
        /\ line[n + 1] = ":"

LabelLineName(line) ==
    LET n == CHOOSE n \in 1..(Len(line) - 1) :
                 /\ \A k \in 1..n : valid_symbol(line[k])
                 /\ line[n + 1] = ":"
    IN  SubSeq(line, 1, n)

\* the lines, counted from 1, that define the label name: line k is the
\* line at index k - 1, so the index after it is k
DefLines(name) ==
    { k \in 1..Len(commands) :
          IsLabelLine(commands[k]) /\ LabelLineName(commands[k]) = name }

DefinedNames == { LabelLineName(commands[k]) :
                      k \in { j \in 1..Len(commands) : IsLabelLine(commands[j]) } }

LastDefLine(name) == CHOOSE k \in DefLines(name) : \A j \in DefLines(name) : j <= k

\* C9 as stated: the label of every label line is mapped to the index after
\* that line
C9_EveryLabelLineMapped ==
    \A name \in DefinedNames :
        \A k \in DefLines(name) : name \in DOMAIN labels /\ labels[name] = k

\* C9 as amended: the label of every label line that no later line defines
\* again is mapped to the index after that line, and a jmp or call naming it
\* sets command_index to that index
C9_LastLabelLineMapped ==
    \A name \in DefinedNames :
        \A k \in DefLines(name) :
            (\A j \in DefLines(name) : j <= k) =>
                /\ name \in DOMAIN labels
                /\ labels[name] = k
                /\ (last.op \in { w_jmp, w_call } /\ last.target = name /\ error = "")
                       => command_index = k

\* a call to a label defined once went to the index after its line
C9_Witness ==
    /\ last.op = w_call
    /\ error = ""
    /\ last.target \in DefinedNames
    /\ Cardinality(DefLines(last.target)) = 1
    /\ command_index \in DefLines(last.target)
    /\ command_index # last.pc + 1

\* C10: a label defined on several lines is mapped to the index after the
\* last of them, and every jump or call naming it, wherever it stands, sets
\* command_index to that index
C10_LastDefinitionWins ==
    \A name \in DefinedNames :
        Cardinality(DefLines(name)) >= 2 =>
            /\ name \in DOMAIN labels
            /\ labels[name] = LastDefLine(name)
            /\ (last.target = name /\ error = "") => command_index = LastDefLine(name)

\* a jump standing between two definitions of its label went past the last
C10_Witness ==
    /\ error = ""
    /\ last.target \in DefinedNames
    /\ \E k \in DefLines(last.target) :
           k < last.pc + 1 /\ last.pc + 1 < LastDefLine(last.target)
    /\ command_index = LastDefLine(last.target)


\* the first identifier run of a line: it starts at p, ends before e, and
\* nothing before it is an identifier character or starts a comment
FirstRun(line, p, e) ==
    /\ 0 <= p /\ p < e /\ e <= Len(line)
    /\ \A k \in 0..(p - 1) : ~valid_symbol(At(line, k)) /\ At(line, k) # ";"
    /\ \A k \in p..(e - 1) : valid_symbol(At(line, k))
    /\ e < Len(line) => ~valid_symbol(At(line, e))

\* the first identifier run of the line is immediately followed by a colon
LabelRun(line, p, e) == FirstRun(line, p, e) /\ e < Len(line) /\ At(line, e) = ":"

\* C11: a line whose first identifier run is immediately followed by ":" is
\* tokenized to the label instruction with exactly one operand, that
\* identifier, whatever follows the colon on the line
C11_LabelLineTokenized ==
    tok_done =>
        \A p \in 0..Len(tok_line), e \in 0..Len(tok_line) :
            LabelRun(tok_line, p, e) =>
                tok_out = Parsed(label_command, << Slice(tok_line, p, e) >>)

\* a label line with an identifier after its colon has been tokenized
C11_Witness ==
    /\ tok_done
    /\ \E p \in 0..Len(tok_line), e \in 0..Len(tok_line) :
           /\ LabelRun(tok_line, p, e)
           /\ \E k \in (e + 1)..(Len(tok_line) - 1) : valid_symbol(At(tok_line, k))
    /\ tok_out.command = label_command

\* C12: a line made of an opcode followed by operands, each after a
\* separator of commas and spaces, is tokenized to the opcode and all the
\* operands in source order, each verbatim: identifiers, integer literals with
\* their "-", quoted strings with their inside and both quotes
C12_OperandsVerbatimInOrder ==
    (tok_done /\ tok_src.built) => tok_out = Parsed(tok_src.command, tok_src.args)

\* a line with a negative literal and a quoted string that has a space and
\* punctuation inside has been tokenized
C12_Witness ==
    /\ tok_done
    /\ tok_src.built
    /\ Len(tok_src.args) >= 2
    /\ \E k \in 1..Len(tok_src.args) : Head(tok_src.args[k]) = "-"
    /\ \E k \in 1..Len(tok_src.args) :
           LET arg == tok_src.args[k]
           IN  /\ Head(arg) = "'"
               /\ \E n \in 2..(Len(arg) - 1) : arg[n] = " "
               /\ \E n \in 2..(Len(arg) - 1) : arg[n] = ","
    /\ tok_out.args = tok_src.args

\* a stripped line that holds nothing, or only a comment
BlankOrComment(line) == line = << >> \/ Head(line) = ";"

\* the opcode a stripped line that starts with an identifier run is read as
FirstWord(line) ==
    LET e == SymbolRunEnd(line, 0)
    IN  IF e < Len(line) /\ At(line, e) = ":" THEN label_command ELSE Slice(line, 0, e)

\* one parsed instruction for each source line, in the order of the lines
OnePerLineInOrder ==
    /\ Len(parsed_instructions) = Len(commands)
    /\ \A k \in 1..Len(commands) :
           /\ BlankOrComment(commands[k]) =>
                  parsed_instructions[k] = Parsed(<< >>, << >>)
           /\ (commands[k] # << >> /\ valid_symbol(Head(commands[k]))) =>
                  parsed_instructions[k].command = FirstWord(commands[k])

\* the dispatch of an empty instruction moves command_index by one and
\* changes nothing else of the run
EmptyInstructionAdvances ==
    ( /\ phase = "running"
      /\ command_index \in 0..(Len(parsed_instructions) - 1)
      /\ Cur = Parsed(<< >>, << >>)
      /\ steps' # steps ) =>
        /\ command_index' = command_index + 1
        /\ UNCHANGED << registers, call_stack, cmp_flag, success_flag, messages,
                        phase, error, result, labels >>

\* C13: the loader makes exactly one parsed instruction for each source
\* line, in source order; a line of only whitespace and/or a comment gives
\* the empty instruction, and dispatching it only advances command_index by 1
C13_OneInstructionPerLine == []OnePerLineInOrder /\ [][EmptyInstructionAdvances]_vars

\* the empty instruction of a comment line has been dispatched
C13_Witness ==
    /\ last.op = << >>
    /\ last.pc >= 0
    /\ commands[last.pc + 1] # << >>
    /\ BlankOrComment(commands[last.pc + 1])
    /\ command_index = last.pc + 1
    /\ Len(commands) > 1

\* the fragment a msg with these operands appends: the inside of a quoted
\* string, the decimal digits of an integer value, nothing inserted
Fragment(args) ==
    join([k \in 1..Len(args) |->
            IF Head(args[k]) = "'" THEN Slice(args[k], 1, Len(args[k]) - 1)
            ELSE str(get_value(args[k]))])

\* every operand of the msg executed last that is no quoted string has an
\* integer value
MsgOperandsHaveValues ==
    \A k \in 1..Len(LastArgs) :
        Head(LastArgs[k]) # "'" => ~get_value(LastArgs[k]).none

\* C14: a msg appends exactly one fragment, the concatenation over its
\* operands, in order, of the inside of each quoted string and of the decimal
\* representation of the integer value of each other operand, and advances
\* command_index by 1
C14_MsgAppendsFragment ==
    (last.op = w_msg /\ error = "" /\ LastArgs # << >>) =>
        /\ MsgOperandsHaveValues
        /\ Len(messages) = Len(emitted)
        /\ messages[Len(messages)] = Fragment(LastArgs)
        /\ command_index = last.pc + 1

\* after end the run is halted with success: end is the instruction
\* dispatched last, and what the run returns is the output so far
HaltedAtEnd ==
    end_executed =>
        /\ last.op = w_end
        /\ success_flag
        /\ phase # "raised" /\ error = ""
        /\ ~(command_index < Len(parsed_instructions))
        /\ phase = "returned" => result = StrResult(join(messages))

\* after end nothing is dispatched and nothing of the run changes
NothingAfterEnd ==
    end_executed =>
        UNCHANGED << registers, call_stack, messages, cmp_flag, command_index,
                     steps, last >>

\* C15: once end has executed the run is halted with success and no further
\* instruction is dispatched: the instructions after end change no register,
\* call stack or output, and the result is the output accumulated up to end,
\* also when the call stack is not empty
C15_EndHalts == []HaltedAtEnd /\ [][NothingAfterEnd]_vars

\* a run has returned after an end executed inside a subroutine, with
\* instructions after the end
C15_Witness ==
    /\ end_executed
    /\ phase = "returned"
    /\ call_stack # << >>
    /\ last.pc + 1 < Len(commands)
    /\ result.kind = "str" /\ result.text # << >>

\* C16: a ret executed while the call stack is empty is fatal (the
\* IndexError of popping an empty list): the run stops at the ret, with
\* command_index not set to any address and nothing returned
C16_RetOnEmptyStackFails ==
    (last.op = w_ret /\ LastArgs = << >> /\ last.depth = 0) =>
        /\ phase = "raised"
        /\ error = "IndexError"
        /\ command_index = last.pc
        /\ call_stack = << >>
        /\ result = NoResult

\* a ret has been executed on an empty call stack, after some output, in a
\* program that has a call
C16_Witness ==
    /\ last.op = w_ret
    /\ last.depth = 0
    /\ error = "IndexError"
    /\ messages # << >>
    /\ \E k \in 1..Len(parsed_instructions) : parsed_instructions[k].command = w_call

\* q is the floor of a / b, for b # 0
IsFloorOf(q, a, b) ==
    IF b > 0 THEN b * q <= a /\ a < b * q + b
    ELSE b * q >= a /\ a > b * q + b

\* C17: div r, b on a register holding the integer a, with the operand an
\* integer b: for b # 0 the register gets the floor of a / b (-7 div 2 = -4,
\* 7 div -2 = -4) and command_index advances by 1; for b = 0 the run fails
\* with the division error and the register keeps a
C17_DivFloorsOrFails ==
    (last.op = w_div /\ Len(LastArgs) = 2 /\ ~last.x.none /\ ~last.y.none) =>
        LET r == LastArgs[1]
            a == last.x.n
            b == last.y.n
        IN  IF b = 0
            THEN /\ phase = "raised" /\ error = "ZeroDivisionError"
                 /\ registers[r] = IntV(a)
                 /\ command_index = last.pc
            ELSE /\ error = ""
                 /\ command_index = last.pc + 1
                 /\ ~registers[r].none
                 /\ IsFloorOf(registers[r].n, a, b)
                 /\ (a = 0 - 7 /\ b = 2) => registers[r].n = 0 - 4
                 /\ (a = 7 /\ b = 0 - 2) => registers[r].n = 0 - 4

\* 7 has been divided by -2
C17_Witness ==
    /\ last.op = w_div
    /\ last.x = IntV(7)
    /\ last.y = IntV(0 - 2)
    /\ registers[LastArgs[1]] = IntV(0 - 4)
    /\ command_index = last.pc + 1

\* C18: the engine has no step limit: a run that a jump has taken back to a
\* state it was in before (as a cmp / jne pair that jumps back to an earlier
\* label without changing the compared values does) never reaches a halted
\* state, however many instructions it has dispatched
C18_LoopNeverHalts ==
    recurred =>
        /\ phase = "running"
        /\ error = ""
        /\ result = NoResult
        /\ ~end_executed
        /\ command_index < Len(parsed_instructions)

\* a jne right after a cmp has jumped back to a label and the run is in the
\* state of an earlier pass of the loop, many instructions later
C18_Witness ==
    /\ recurred
    /\ last.op = w_jne /\ prev.op = w_cmp
    /\ last.target # << >>
    /\ command_index <= last.pc
    /\ Core = mark.core
    /\ steps >= 30

\* the jnz run last had two operands that resolved to integers
JnzOfIntegers ==
    /\ s_last.op = w_jnz
    /\ ~s_last.x.none
    /\ ~s_last.y.none

\* C20: in SimpleAssemblerInterpreter, jnz x y with x resolving to a
\* non-zero integer moves command_index by exactly y from the jnz itself,
\* and with x resolving to zero advances it by exactly 1; no register changes
\* in either case
C20_JnzMovesByOffset ==
    JnzOfIntegers =>
        /\ s_error = ""
        /\ s_registers = s_last.regs
        /\ s_command_index =
              s_last.pc + (IF s_last.x.n # 0 THEN s_last.y.n ELSE 1)

\* a jnz on a non-zero register has jumped two commands back
C20_Witness ==
    /\ JnzOfIntegers
    /\ s_last.x.n # 0
    /\ s_last.y.n = 0 - 2
    /\ s_last.pc >= 2
    /\ s_command_index = s_last.pc - 2

\* two runs ended the same: result, registers, call stack, flag and output,
\* and the same way
SameOutcome(r, s) ==
    /\ r.result = s.result
    /\ r.registers = s.registers
    /\ r.call_stack = s.call_stack
    /\ r.cmp_flag = s.cmp_flag
    /\ r.messages = s.messages
    /\ r.success_flag = s.success_flag
    /\ r.command_index = s.command_index
    /\ r.phase = s.phase
    /\ r.error = s.error
    /\ r.steps = s.steps

\* C19: of two engine instances whose steps are interleaved in any order,
\* each ends with the result, registers, call stack, flag and output it ends
\* with when run alone
C19_InterleavedRunsAsAlone ==
    mode = "both" =>
        /\ Snapshot.commands = alone[active].commands
        /\ other.commands = alone[3 - active].commands
        /\ Stopped(Snapshot) => SameOutcome(Snapshot, alone[active])
        /\ Stopped(other) => SameOutcome(other, alone[3 - active])

\* the second instance has run to its end between two instructions of the
\* first, both with registers written
C19_Witness ==
    /\ mode = "both"
    /\ active = 2
    /\ phase = "returned" /\ result.kind = "str" /\ result.text # << >>
    /\ registers # EmptyDict
    /\ other.phase = "running"
    /\ other.steps >= 2
    /\ other.registers # EmptyDict
    /\ other.command_index < Len(other.parsed_instructions)
    /\ SameOutcome(Snapshot, alone[2])

\* the instruction dispatched last had one operand, a label no line defines
LastLabelUndefined == Len(LastArgs) = 1 /\ LastArgs[1] \notin DOMAIN labels

\* the run failed at the instruction dispatched last for its label
FailedForLabel ==
    /\ phase = "raised"
    /\ error = "KeyError"
    /\ command_index = last.pc
    /\ result = NoResult

\* C21: jmp, call and a taken conditional jump whose label no line defines
\* fail (the KeyError of the lookup) and the run goes on at no instruction;
\* a conditional jump that is not taken does not look its label up and
\* advances command_index by 1 also when no line defines the label
C21_UndefinedLabelFailsWhenTaken ==
    /\ (last.op \in { w_jmp, w_call } /\ LastLabelUndefined) => FailedForLabel
    /\ (last.op \in CondJumps /\ LastLabelUndefined /\ ~cmp_flag.none) =>
           IF CondRelation(last.op, cmp_flag.n, 0) THEN FailedForLabel
           ELSE /\ phase # "raised" /\ error = ""
                /\ command_index = last.pc + 1

\* after a cmp a conditional jump that was not taken went past a label no
\* line defines, and the run went on
C21_Witness ==
    /\ prev.op \in CondJumps
    /\ At(parsed_instructions, prev.pc).args = << << "g" >> >>
    /\ << "g" >> \notin DOMAIN labels
    /\ ~cmp_flag.none
    /\ last.op = w_msg
    /\ last.pc = prev.pc + 1
    /\ error = ""

\* the instructions that update a register in place
UpdatingCommands == { w_inc, w_dec, w_add, w_sub, w_mul, w_div }

\* an instruction is dispatched in this step
Dispatched == phase = "running" /\ steps' # steps

\* a step that changes the set of register names is a mov, which adds the
\* name of its first operand; an updating instruction dispatched on a register
\* that was never written fails and leaves the registers as they are
RegisterNamesStep ==
    /\ DOMAIN registers' # DOMAIN registers =>
           /\ Dispatched
           /\ Cur.command = w_mov
           /\ DOMAIN registers' = DOMAIN registers \cup { Cur.args[1] }
    /\ ( /\ Dispatched
         /\ Cur.command \in UpdatingCommands
         /\ Cur.args # << >>
         /\ Cur.args[1] \notin DOMAIN registers ) =>
           /\ phase' = "raised"
           /\ error' \in Exceptions
           /\ registers' = registers

\* C22: the set of register names changes only through mov: inc, dec, add,
\* sub, mul and div on a register that was never written fail and do not
\* create it, and no other instruction adds or removes a register
C22_OnlyMovCreatesRegisters == [][RegisterNamesStep]_vars

\* a div on a register that was never written has failed, with another
\* register written before, and the register is still not there
C22_Witness ==
    /\ last.op = w_div
    /\ Len(LastArgs) = 2
    /\ LastArgs[1] \notin DOMAIN registers
    /\ registers # EmptyDict
    /\ error = "KeyError"

\* the flag changes only in the step of a cmp, to x - y of its operands
FlagStep ==
    cmp_flag' # cmp_flag =>
        /\ Dispatched
        /\ Cur.command = w_cmp
        /\ Len(Cur.args) = 2
        /\ cmp_flag' = IntV(get_value(Cur.args[1]).n - get_value(Cur.args[2]).n)

\* a conditional jump to an existing label goes by the flag as it stands
JumpConsultsFlag ==
    ( /\ last.op \in CondJumps
      /\ Len(LastArgs) = 1
      /\ LastArgs[1] \in DOMAIN labels
      /\ ~cmp_flag.none ) =>
        /\ error = ""
        /\ command_index = IF CondRelation(last.op, cmp_flag.n, 0)
                           THEN labels[LastArgs[1]]
                           ELSE last.pc + 1

\* C23: only cmp changes the flag: every other instruction leaves it as it
\* is, so a conditional jump goes by x - y of the cmp executed most recently,
\* whatever was executed in between, a call and a ret included
C23_OnlyCmpWritesFlag == []JumpConsultsFlag /\ [][FlagStep]_vars

\* a jne was taken on the flag of a cmp a, 0 made before a call that changed
\* a and returned
C23_Witness ==
    /\ last.op = w_jne
    /\ prev.op = w_ret
    /\ cmp_flag = IntV(2)
    /\ << "a" >> \in DOMAIN registers
    /\ registers[<< "a" >>] = IntV(3)
    /\ command_index = labels[LastArgs[1]]
    /\ command_index # last.pc + 1

\* the indices after a line of the program
AfterALine == 1..Len(parsed_instructions)

\* C24: in every reachable state 0 <= command_index <= len(program), every
\* label target and every return address on the call stack is in
\* 1..len(program), every instruction was fetched inside the program, and a
\* run that a jump or a ret took to index len(program) returns -1
C24_IndicesInRange ==
    /\ command_index \in 0..Len(parsed_instructions)
    /\ \A name \in DOMAIN labels : labels[name] \in AfterALine
    /\ \A k \in 1..Len(call_stack) : call_stack[k] \in AfterALine
    /\ steps > 0 => last.pc \in 0..(Len(parsed_instructions) - 1)
    /\ ( /\ phase = "returned"
         /\ last.op \in CondJumps \cup { w_jmp, w_call, w_ret }
         /\ command_index = Len(parsed_instructions) ) =>
           /\ ~success_flag
           /\ result = IntResult(0 - 1)

\* a ret has taken the run to the index after the last line, where a call
\* stood, and the run has returned -1 after some output
C24_Witness ==
    /\ last.op = w_ret
    /\ error = ""
    /\ command_index = Len(parsed_instructions)
    /\ phase = "returned"
    /\ result = IntResult(0 - 1)
    /\ messages # << >>

\* a step in which the run fails leaves the run as it was before it
FailureStep ==
    (error = "" /\ error' # "") =>
        UNCHANGED << command_index, registers, call_stack, cmp_flag, messages >>

\* C25: an instruction that fails leaves command_index, the registers, the
\* call stack, the flag and the messages exactly as they were before it was
\* dispatched: a call to a label no line defines pushes no return address, a
\* div by zero leaves its register unchanged, a cmp with an operand without
\* a value leaves the flag unchanged
C25_FailureChangesNothing == [][FailureStep]_vars

\* this step executes an instruction with this opcode, without failing
Executes(command) ==
    /\ Dispatched
    /\ command_index < Len(parsed_instructions)
    /\ Cur.command = command
    /\ error' = ""

\* the call stack grows by one in the step of an executed call, shrinks by
\* one in the step of an executed ret, and keeps its depth in every other step
DepthStep ==
    Len(call_stack') - Len(call_stack) =
        IF Executes(w_call) THEN 1 ELSE IF Executes(w_ret) THEN 0 - 1 ELSE 0

\* C26: the depth of the call stack, 0 at the start, is at every state the
\* number of call instructions executed minus the number of ret instructions
\* executed; jmp and the conditional jumps never change the call stack
C26_DepthIsCallsMinusRets == [][DepthStep]_vars

\* a conditional jump dispatched while the flag is as __init__ left it: jne
\* goes on to the next instruction, je jumps to its label, the four others
\* fail; the flag stays as it is
UnsetFlagJumpStep ==
    ( /\ Dispatched
      /\ command_index < Len(parsed_instructions)
      /\ Cur.command \in CondJumps
      /\ Len(Cur.args) = 1
      /\ cmp_flag = None ) =>
        /\ cmp_flag' = None
        /\ CASE Cur.command = w_jne ->
                   error' = "" /\ command_index' = command_index + 1
             [] Cur.command = w_je ->
                   IF Cur.args[1] \in DOMAIN labels
                   THEN error' = "" /\ command_index' = labels[Cur.args[1]]
                   ELSE error' = "KeyError" /\ command_index' = command_index
             [] OTHER ->
                   /\ phase' = "raised" /\ error' = "TypeError"
                   /\ command_index' = command_index

\* C27: before any cmp has executed, a conditional jump does not behave
\* uniformly: jne advances without jumping, je jumps to its label, and jge,
\* jg, jle, jl fail; none of them writes the flag
C27_JumpsBeforeAnyCmp == [][UnsetFlagJumpStep]_vars

\* a je has jumped over an instruction to its label before any cmp
C27_Witness ==
    /\ last.op = w_je
    /\ cmp_flag = None
    /\ error = ""
    /\ command_index = labels[LastArgs[1]]
    /\ command_index > last.pc + 1

\* C28: for every source line, parse_instruction of src/part_2.py and
\* parse_instruction of src/kata/part_2_kata.py return the same opcode and
\* the same operands (the first half of the equivalence of the two
\* interpreters, on which the equality of their runs rests)
C28_SameParse == tok_done => kata_out = tok_out

\* C29: every instruction SimpleAssemblerInterpreter executes was fetched at
\* an index from 0 up to len(commands) - 1: a jnz that moves command_index
\* below 0 never makes an instruction counted from the end execute
C29_FetchInRange ==
    (s_steps > 0 /\ s_error # "IndexError") =>
        s_last.pc \in 0..(Len(s_commands) - 1)
====
